---- MODULE Spec2Model ----
(***************************************************************************)
(* A model of the PrecoFacil web application: the local-storage backed     *)
(* authentication layer (lib/auth), the establishment quiz component and   *)
(* the Overpass place finder (lib/places).                                 *)
(*                                                                         *)
(* JavaScript strings are sequences of one-character strings, so that      *)
(* String.prototype.includes, .length and the empty-string test are        *)
(* computed, not assumed.                                                  *)
(***************************************************************************)
EXTENDS Integers, Sequences, FiniteSets, TLC

VARIABLES
    localStorage,       \* browser key-value storage: a partial map key -> serialised value
    authCall,           \* the last call of register/login/logout with its return value
    currentQuestion,    \* quiz component state (useState hooks)
    answers,
    isComplete,
    result,
    isGeneratingImage,
    quizResults,        \* the module-level result table (objects shared by reference)
    handlers,           \* suspended handleAnswer invocations (awaiting onGenerateImage)
    hasImageCallback,   \* whether the onGenerateImage prop is given
    imageConfigured,    \* isImageGenerationConfigured(): the build has an API key
    completed,          \* the last onComplete invocation
    quizRuns,           \* number of quiz completions so far
    userAnswers,        \* argument and return value of a bare determineResult call
    determined,
    finder,             \* the last searchNearbyPlaces call: request, outcome, returned list
    google,             \* the last call of searchPlacesWithGoogle or getPlaceDetails
    tags,               \* argument and return value of a bare getCategoryFromTags call
    category,
    genPlace,           \* argument, random source and return value of a bare
    genRandom,          \*   generateRealisticProducts call
    genProducts,
    geo,                \* the last geocoder call (handleSearch or getAddressFromCEP)
    priceCall,          \* the last call of a price function, with its lookups
    distCall,           \* a calculateDistance call on two points of the globe, both ways
    locator,            \* the last getCurrentLocation call: its promise, timer and request
    cities,             \* lib/city-autocomplete: citiesCache and the searchCitiesWithCache calls
    page                \* the page component: its useState hooks and the runs of its
                        \*   search handlers that are awaiting a collaborator

authVars == <<localStorage, authCall>>
quizVars == <<currentQuestion, answers, isComplete, result, isGeneratingImage,
              quizResults, handlers, hasImageCallback, imageConfigured, completed,
              quizRuns>>
pureVars == <<userAnswers, determined>>
finderVars == <<finder, google>>
catVars == <<tags, category>>
genVars == <<genPlace, genRandom, genProducts>>
geoVars == <<geo>>
priceVars == <<priceCall>>
moreVars == <<distCall, locator, cities, page>>
libVars == <<catVars, genVars, geoVars, priceVars, moreVars>>
otherThanLocator == <<authVars, quizVars, pureVars, finderVars, catVars, genVars, geoVars,
                      priceVars, distCall, cities, page>>
otherThanCities == <<authVars, quizVars, pureVars, finderVars, catVars, genVars, geoVars,
                     priceVars, distCall, locator, page>>
otherThanPage == <<authVars, quizVars, pureVars, finderVars, catVars, genVars, geoVars,
                   priceVars, distCall, locator, cities>>
vars == <<localStorage, authCall, currentQuestion, answers, isComplete, result,
          isGeneratingImage, quizResults, handlers, hasImageCallback, imageConfigured,
          completed, quizRuns, userAnswers, determined, finder, google, tags, category,
          genPlace, genRandom, genProducts, geo, priceCall, distCall, locator, cities,
          page>>

----------------------------------------------------------------------------
(* JavaScript string helpers                                               *)

\* s.includes(sub): sub occurs in s as a contiguous run of characters
Includes(s, sub) ==
    \E i \in 0..(Len(s) - Len(sub)) : SubSeq(s, i + 1, i + Len(sub)) = sub

\* !s for a string: only the empty string is falsy
Falsy(s) == Len(s) = 0

Rep(c, n) == [i \in 1..n |-> c]

----------------------------------------------------------------------------
(* lib/auth                                                                *)

NumUsers == 2           \* distinct well-formed emails offered to the calls
MinPasswordLength == 6

STORAGE_KEY == "precofacil_auth"
USERS_KEY == "precofacil_users"

ValidEmail(i) == <<"u">> \o Rep("x", i) \o <<"@", "d">>
Emails == { <<>>, <<"u", "x">> } \cup { ValidEmail(i) : i \in 1..NumUsers }
Passwords == { <<>>, Rep("p", MinPasswordLength - 1), Rep("p", MinPasswordLength),
               Rep("q", MinPasswordLength + 1) }
Names == { <<>>, <<"A", "n", "a">> }

\* JSON.stringify / JSON.parse of the user list: an array of objects becomes a
\* sequence of <<email, password, name>> triples in the stored text
StringifyUsers(users) == [i \in DOMAIN users |->
                             <<users[i].email, users[i].password, users[i].name>>]
ParseUsers(text) == [i \in DOMAIN text |->
                        [email |-> text[i][1], password |-> text[i][2], name |-> text[i][3]]]

\* JSON.stringify / JSON.parse of the session record
StringifyAuthState(s) == <<s.isAuthenticated, <<s.user.email, s.user.name>>>>
ParseAuthState(text) == [isAuthenticated |-> text[1],
                         user |-> [email |-> text[2][1], name |-> text[2][2]]]

getStoredUsers ==
    IF USERS_KEY \in DOMAIN localStorage THEN ParseUsers(localStorage[USERS_KEY]) ELSE <<>>

NoUser == [null |-> TRUE]
Unauthenticated == [isAuthenticated |-> FALSE, user |-> NoUser]

getAuthState ==
    IF STORAGE_KEY \notin DOMAIN localStorage
    THEN Unauthenticated
    ELSE ParseAuthState(localStorage[STORAGE_KEY])

setItem(key, value) ==
    [k \in DOMAIN localStorage \cup {key} |-> IF k = key THEN value ELSE localStorage[k]]
removeItem(key) ==
    [k \in DOMAIN localStorage \ {key} |-> localStorage[k]]

emailTaken_never(users, email) == FALSE
emailTaken(users, email) == \E i \in DOMAIN users : users[i].email = email

passwordTooShort(password) == Len(password) < MinPasswordLength

\* the return value of register(email, password, name)
registerResult(email, password, name) ==
    IF Falsy(email) \/ Falsy(password) \/ Falsy(name)
    THEN [success |-> FALSE, error |-> "Preencha todos os campos"]
    ELSE IF ~Includes(email, <<"@">>)
    THEN [success |-> FALSE, error |-> "Email inválido"]
    ELSE IF passwordTooShort(password)
    THEN [success |-> FALSE, error |-> "Senha deve ter no mínimo 6 caracteres"]
    ELSE IF emailTaken(getStoredUsers, email)
    THEN [success |-> FALSE, error |-> "Email já cadastrado"]
    ELSE [success |-> TRUE]

register_storesOnFailure(email, password, name) ==
    LET r == registerResult(email, password, name) IN
    /\ localStorage' = setItem(USERS_KEY, StringifyUsers(
            Append(getStoredUsers, [email |-> email, password |-> password, name |-> name])))
    /\ authCall' = [op |-> "register", email |-> email, password |-> password,
                    name |-> name, result |-> r]
register_logsIn(email, password, name) ==
    LET r == registerResult(email, password, name)
        stored == [k \in DOMAIN localStorage \cup {USERS_KEY} |->
                     IF k = USERS_KEY
                     THEN StringifyUsers(Append(getStoredUsers,
                            [email |-> email, password |-> password, name |-> name]))
                     ELSE localStorage[k]]
    IN
    /\ localStorage' =
         IF r.success
         THEN [k \in DOMAIN stored \cup {STORAGE_KEY} |->
                 IF k = STORAGE_KEY
                 THEN StringifyAuthState([isAuthenticated |-> TRUE,
                                          user |-> [email |-> email, name |-> name]])
                 ELSE stored[k]]
         ELSE localStorage
    /\ authCall' = [op |-> "register", email |-> email, password |-> password,
                    name |-> name, result |-> r]
register(email, password, name) ==
    LET r == registerResult(email, password, name) IN
    /\ localStorage' =
         IF r.success
         THEN setItem(USERS_KEY, StringifyUsers(
                Append(getStoredUsers, [email |-> email, password |-> password, name |-> name])))
         ELSE localStorage
    /\ authCall' = [op |-> "register", email |-> email, password |-> password,
                    name |-> name, result |-> r]

\* users.find(u => u.email === email && u.password === password): index of the
\* first match, 0 when there is none
findUser_emailOnly(users, email, password) ==
    LET hits == { i \in DOMAIN users : users[i].email = email }
    IN IF hits = {} THEN 0 ELSE CHOOSE i \in hits : \A j \in hits : i <= j
findUser(users, email, password) ==
    LET hits == { i \in DOMAIN users : users[i].email = email /\ users[i].password = password }
    IN IF hits = {} THEN 0 ELSE CHOOSE i \in hits : \A j \in hits : i <= j

loginError_distinct(users, email) ==
    IF emailTaken(users, email) THEN "Senha incorreta" ELSE "Email ou senha incorretos"
loginError(users, email) == "Email ou senha incorretos"

loginResult(email, password) ==
    IF Falsy(email) \/ Falsy(password)
    THEN [success |-> FALSE, error |-> "Preencha todos os campos"]
    ELSE LET users == getStoredUsers
             i == findUser(users, email, password)
         IN IF i = 0
            THEN [success |-> FALSE, error |-> loginError(users, email)]
            ELSE [success |-> TRUE,
                  user |-> [email |-> users[i].email, name |-> users[i].name]]

login(email, password) ==
    LET r == loginResult(email, password) IN
    /\ localStorage' =
         IF r.success
         THEN setItem(STORAGE_KEY,
                StringifyAuthState([isAuthenticated |-> TRUE, user |-> r.user]))
         ELSE localStorage
    /\ authCall' = [op |-> "login", email |-> email, password |-> password, result |-> r]

logout_clearsAll ==
    /\ localStorage' = [k \in {} |-> <<>>]
    /\ authCall' = [op |-> "logout"]
logout ==
    /\ localStorage' = removeItem(STORAGE_KEY)
    /\ authCall' = [op |-> "logout"]

Register == \E e \in Emails, p \in Passwords, n \in Names :
                register(e, p, n) /\ UNCHANGED <<quizVars, pureVars, finderVars, libVars>>
Login == \E e \in Emails, p \in Passwords :
                login(e, p) /\ UNCHANGED <<quizVars, pureVars, finderVars, libVars>>
Logout == logout /\ UNCHANGED <<quizVars, pureVars, finderVars, libVars>>

----------------------------------------------------------------------------
(* components/custom/establishment-quiz                                    *)

MaxRuns == 2            \* quiz completions explored
MaxFairRuns == 1        \* quiz completions explored under fairness
NumUrls == 1            \* distinct image URLs the generator can return

food == <<"f","o","o","d">>
health == <<"h","e","a","l","t","h">>
meal == <<"m","e","a","l">>
general == <<"g","e","n","e","r","a","l">>
variety == <<"v","a","r","i","e","t","y">>
specialized == <<"s","p","e","c","i","a","l","i","z","e","d">>
quick == <<"q","u","i","c","k">>
price == <<"p","r","i","c","e">>
large == <<"l","a","r","g","e">>
professional == <<"p","r","o","f","e","s","s","i","o","n","a","l">>
cozy == <<"c","o","z","y">>
simple == <<"s","i","m","p","l","e">>

\* the option values of each question, in display order
quizQuestions == << <<food, health, meal, general>>,
                    <<variety, specialized, quick, price>>,
                    <<large, professional, cozy, simple>> >>

QuizOptions(q) == { quizQuestions[q][i] : i \in DOMAIN quizQuestions[q] }

ResultTypes == {"Mercado", "Farmácia", "Lanchonete", "Cafeteria", "Padaria", "Restaurante"}

NoImage == 0
Urls == 1..NumUrls

\* userAnswers.join("-")
RECURSIVE Join(_)
Join(parts) ==
    IF Len(parts) = 0 THEN <<>>
    ELSE IF Len(parts) = 1 THEN parts[1]
    ELSE parts[1] \o <<"-">> \o Join(Tail(parts))

determineResult_lanchoneteFirst(ua) ==
    LET answerString == Join(ua) IN
    IF Includes(answerString, food)
       /\ (Includes(answerString, variety) \/ Includes(answerString, price))
    THEN "Mercado"
    ELSE IF Includes(answerString, health) THEN "Farmácia"
    ELSE IF Includes(answerString, meal) /\ Includes(answerString, quick) THEN "Lanchonete"
    ELSE IF Includes(answerString, meal) /\ Includes(answerString, cozy) THEN "Cafeteria"
    ELSE IF Includes(answerString, food) /\ Includes(answerString, quick) THEN "Padaria"
    ELSE IF Includes(answerString, meal) THEN "Restaurante"
    ELSE "Mercado"
determineResult_noPadaria(ua) ==
    LET answerString == Join(ua) IN
    IF Includes(answerString, food)
       /\ (Includes(answerString, variety) \/ Includes(answerString, price))
    THEN "Mercado"
    ELSE IF Includes(answerString, health) THEN "Farmácia"
    ELSE IF Includes(answerString, meal) /\ Includes(answerString, cozy) THEN "Cafeteria"
    ELSE IF Includes(answerString, meal) /\ Includes(answerString, quick) THEN "Lanchonete"
    ELSE IF Includes(answerString, meal) THEN "Restaurante"
    ELSE "Mercado"
\* the key of the quizResults entry determineResult returns
determineResult(ua) ==
    LET answerString == Join(ua) IN
    IF Includes(answerString, food)
       /\ (Includes(answerString, variety) \/ Includes(answerString, price))
    THEN "Mercado"
    ELSE IF Includes(answerString, health) THEN "Farmácia"
    ELSE IF Includes(answerString, meal) /\ Includes(answerString, cozy) THEN "Cafeteria"
    ELSE IF Includes(answerString, meal) /\ Includes(answerString, quick) THEN "Lanchonete"
    ELSE IF Includes(answerString, food) /\ Includes(answerString, quick) THEN "Padaria"
    ELSE IF Includes(answerString, meal) THEN "Restaurante"
    ELSE "Mercado"

\* values of the result state: null, the table's object itself (by reference),
\* or a spread copy { ...determinedResult }
NullResult == [kind |-> "null"]
Ref(type) == [kind |-> "ref", type |-> type]
Copy(type, imageUrl) == [kind |-> "copy", type |-> type, imageUrl |-> imageUrl]

\* result.imageUrl as the result card renders it
ShownImage ==
    CASE result.kind = "ref" -> quizResults[result.type]
      [] result.kind = "copy" -> result.imageUrl
      [] OTHER -> NoImage

\* outcomes of the image API call (openai.images.generate) once a key is
\* configured: a response with a URL, a response without one, or a thrown error
Image(u) == [kind |-> "url", url |-> u]
FetchOutcomes == { Image(u) : u \in Urls } \cup { [kind |-> "empty"], [kind |-> "throws"] }

\* generateEstablishmentImage: a GeneratedImage for a response with a URL, null
\* for one without; a thrown error is caught and becomes null
generateEstablishmentImage(outcome) ==
    IF outcome.kind = "url" THEN [kind |-> "image", url |-> outcome.url]
    ELSE [kind |-> "null"]

Resolved(imageUrl) == [kind |-> "resolved", imageUrl |-> imageUrl]
Rejected == [kind |-> "rejected"]

\* the page's handleGenerateImage: how the promise it returns settles
\* (image?.url || null; an error thrown by the generator is caught and becomes null)
handleGenerateImage(outcome) ==
    LET image == generateEstablishmentImage(outcome) IN
    IF image.kind = "throws" THEN Resolved(NoImage)
    ELSE IF image.kind = "image" THEN Resolved(image.url)
    ELSE Resolved(NoImage)

OnComplete(run, type, fetched, via, table) ==
    [run |-> run, type |-> type, imageUrl |-> table[type], fetched |-> fetched, via |-> via]

\* the question view is rendered unless (isComplete && result)
QuestionView == ~(isComplete /\ result.kind # "null")

handleAnswer(value) ==
    LET newAnswers == Append(answers, value) IN
    /\ QuestionView
    /\ answers' = newAnswers
    /\ IF currentQuestion < Len(quizQuestions) - 1
       THEN /\ currentQuestion' = currentQuestion + 1
            /\ UNCHANGED <<isComplete, result, isGeneratingImage, quizResults, handlers,
                           completed, quizRuns>>
       ELSE LET type == determineResult(newAnswers)
                run == quizRuns + 1
            IN /\ quizRuns < MaxRuns
               /\ quizRuns' = run
               /\ result' = Ref(type)
               /\ isComplete' = TRUE
               /\ UNCHANGED <<currentQuestion, quizResults>>
               /\ IF hasImageCallback /\ imageConfigured
                  THEN \* suspended at "await onGenerateImage(...)"
                       /\ isGeneratingImage' = TRUE
                       /\ handlers' = handlers \cup {[run |-> run, type |-> type]}
                       /\ UNCHANGED completed
                  ELSE \* no callback, or the callback resolves null at once
                       /\ isGeneratingImage' = FALSE
                       /\ UNCHANGED handlers
                       /\ completed' = OnComplete(run, type,
                              IF hasImageCallback THEN "unconfigured" ELSE "nocallback",
                              "handler", quizResults)
    /\ UNCHANGED <<hasImageCallback, imageConfigured>>

resumeHandleAnswer_returnsWithoutUrl(h, outcome) ==
    LET settled == handleGenerateImage(outcome) IN
    /\ h \in handlers
    /\ handlers' = handlers \ {h}
    /\ isGeneratingImage' = FALSE
    /\ IF settled.kind = "rejected" \/ settled.imageUrl = NoImage
       THEN UNCHANGED <<quizResults, result, completed>>
       ELSE /\ quizResults' = [quizResults EXCEPT ![h.type] = settled.imageUrl]
            /\ result' = Copy(h.type, settled.imageUrl)
            /\ completed' = OnComplete(h.run, h.type, outcome.kind, "handler", quizResults')
    /\ UNCHANGED <<currentQuestion, answers, isComplete, quizRuns,
                   hasImageCallback, imageConfigured>>
\* handleAnswer resumed after "await onGenerateImage(determinedResult.type)"
resumeHandleAnswer(h, outcome) ==
    LET settled == handleGenerateImage(outcome) IN
    /\ h \in handlers
    /\ handlers' = handlers \ {h}
    /\ IF settled.kind = "rejected"
       THEN \* the await throws: nothing after it runs
            UNCHANGED <<quizResults, result, isGeneratingImage, completed>>
       ELSE /\ IF settled.imageUrl # NoImage
               THEN /\ quizResults' = [quizResults EXCEPT ![h.type] = settled.imageUrl]
                    /\ result' = Copy(h.type, settled.imageUrl)
               ELSE UNCHANGED <<quizResults, result>>
            /\ isGeneratingImage' = FALSE
            /\ completed' = OnComplete(h.run, h.type, outcome.kind, "handler", quizResults')
    /\ UNCHANGED <<currentQuestion, answers, isComplete, quizRuns,
                   hasImageCallback, imageConfigured>>

resetQuiz ==
    /\ ~QuestionView
    /\ currentQuestion' = 0
    /\ answers' = <<>>
    /\ isComplete' = FALSE
    /\ result' = NullResult
    /\ UNCHANGED <<isGeneratingImage, quizResults, handlers, completed, quizRuns,
                   hasImageCallback, imageConfigured>>

goBack_keepsAnswers ==
    /\ QuestionView
    /\ currentQuestion > 0
    /\ currentQuestion' = currentQuestion - 1
    /\ UNCHANGED <<answers, isComplete, result, isGeneratingImage, quizResults, handlers,
                   completed, quizRuns, hasImageCallback, imageConfigured>>
\* the "Voltar" button
goBack ==
    /\ QuestionView
    /\ currentQuestion > 0
    /\ currentQuestion' = currentQuestion - 1
    /\ answers' = SubSeq(answers, 1, Len(answers) - 1)
    /\ UNCHANGED <<isComplete, result, isGeneratingImage, quizResults, handlers, completed,
                   quizRuns, hasImageCallback, imageConfigured>>

\* the "Buscar ..." button of the result card: onComplete(result)
searchResult ==
    /\ ~QuestionView
    /\ completed' = [run |-> quizRuns, type |-> result.type, imageUrl |-> ShownImage,
                     fetched |-> "shown", via |-> "button"]
    /\ UNCHANGED <<currentQuestion, answers, isComplete, result, isGeneratingImage,
                   quizResults, handlers, quizRuns, hasImageCallback, imageConfigured>>

HandleAnswer == \E value \in QuizOptions(currentQuestion + 1) :
                    handleAnswer(value) /\ UNCHANGED <<authVars, pureVars, finderVars, libVars>>
ResumeHandleAnswer == \E h \in handlers, outcome \in FetchOutcomes :
                    resumeHandleAnswer(h, outcome) /\ UNCHANGED <<authVars, pureVars, finderVars, libVars>>
ResetQuiz == resetQuiz /\ UNCHANGED <<authVars, pureVars, finderVars, libVars>>
GoBack == goBack /\ UNCHANGED <<authVars, pureVars, finderVars, libVars>>
SearchResult == searchResult /\ UNCHANGED <<authVars, pureVars, finderVars, libVars>>

\* a bare call of determineResult on a tuple of one option value per question
AnswerTuples == { <<a, b, c>> : a \in QuizOptions(1), b \in QuizOptions(2), c \in QuizOptions(3) }
Determine ==
    /\ determined = "pending"
    /\ determined' = determineResult(userAnswers)
    /\ UNCHANGED <<userAnswers, authVars, quizVars, finderVars, libVars>>

----------------------------------------------------------------------------
(* lib/places: getCategoryFromTags                                         *)

\* CATEGORY_TAGS in declaration order (the order Object.entries yields)
CATEGORY_TAGS == <<
    [category |-> "Mercado",     tagList |-> <<"supermarket", "convenience", "grocery">>],
    [category |-> "Farmácia",    tagList |-> <<"pharmacy", "chemist">>],
    [category |-> "Lanchonete",  tagList |-> <<"fast_food", "restaurant">>],
    [category |-> "Cafeteria",   tagList |-> <<"cafe", "coffee_shop">>],
    [category |-> "Padaria",     tagList |-> <<"bakery">>],
    [category |-> "Restaurante", tagList |-> <<"restaurant">>] >>

\* a tag the element does not carry (tags.shop is undefined)
undefined == "undefined"

\* values of the shop and amenity tags: every listed tag, one OSM value that
\* no list holds, and the absent tag
TagVocabulary == <<"supermarket", "convenience", "grocery", "pharmacy", "chemist",
                   "fast_food", "restaurant", "cafe", "coffee_shop", "bakery",
                   "hairdresser", undefined>>
TagValues == { TagVocabulary[i] : i \in DOMAIN TagVocabulary }

\* Array.prototype.includes
ArrayIncludes(array, value) == \E i \in DOMAIN array : array[i] = value

\* the for..of loop of getCategoryFromTags from entry k on
RECURSIVE categoryFromEntry(_, _, _)
categoryFromEntry(k, shop, amenity) ==
    IF k > Len(CATEGORY_TAGS) THEN "Outros"
    ELSE IF ArrayIncludes(CATEGORY_TAGS[k].tagList, shop)
            \/ ArrayIncludes(CATEGORY_TAGS[k].tagList, amenity)
         THEN CATEGORY_TAGS[k].category
         ELSE categoryFromEntry(k + 1, shop, amenity)

getCategoryFromTags_shopFirst(t) ==
    LET hit(tag) == { k \in DOMAIN CATEGORY_TAGS :
                         ArrayIncludes(CATEGORY_TAGS[k].tagList, tag) }
        first(S) == CHOOSE k \in S : \A j \in S : k <= j
    IN IF hit(t.shop) # {} THEN CATEGORY_TAGS[first(hit(t.shop))].category
       ELSE IF hit(t.amenity) # {} THEN CATEGORY_TAGS[first(hit(t.amenity))].category
       ELSE "Outros"
getCategoryFromTags(t) == categoryFromEntry(1, t.shop, t.amenity)

\* a bare call of getCategoryFromTags
GetCategoryFromTags ==
    /\ category = "pending"
    /\ category' = getCategoryFromTags(tags)
    /\ UNCHANGED <<tags, authVars, quizVars, pureVars, finderVars, genVars, geoVars,
                   priceVars, moreVars>>

----------------------------------------------------------------------------
(* lib/places: searchNearbyPlaces                                          *)

MaxElements == 26       \* elements in an Overpass response
NumSeeds == 3           \* element layouts tried for each response size
GridSize == 13          \* side of the square of element positions, in milli-degrees
NumJitters == 2         \* outcomes of the random source offered to getMockPlaces
MaxResults == 20

\* Coordinates are integer milli-degrees on a small square at the equator
\* and prime meridian; distances are integer tenths of a kilometre.
QueryPoints == { [lat |-> 0, lng |-> 0], [lat |-> 2, lng |-> -3] }

Abs(x) == IF x < 0 THEN -x ELSE x

\* Math.round(x) for the x >= 0 with x*x = num/den, known to be at most max:
\* the k with (2k-1)^2 <= 4x^2 < (2k+1)^2
RoundSqrt(num, den, max) ==
    CHOOSE k \in 0..(max + 1) :
       /\ (k = 0 \/ (2 * k - 1) * (2 * k - 1) * den <= 4 * num)
       /\ (2 * k + 1) * (2 * k + 1) * den > 4 * num

\* calculateDistance (haversine, R = 6371 km, rounded to one decimal), in
\* tenths of a kilometre. On this square the haversine arc equals the planar
\* distance to well below the rounding step: one milli-degree is 0.111195 km,
\* so (10*d)^2 = 1.2364 * (dLat^2 + dLng^2).
calculateDistance(coord1, coord2) ==
    LET dLat == coord2.lat - coord1.lat
        dLng == coord2.lng - coord1.lng
    IN RoundSqrt(12364 * (dLat * dLat + dLng * dLng), 10000,
                 2 * (Abs(dLat) + Abs(dLng)))

\* an Overpass response body: n nodes; node i lies at a position fixed by
\* (seed, i) and carries shop and amenity tags fixed by (seed, i), and some
\* nodes carry no name tag
Element(seed, i) ==
    [id |-> i,
     lat |-> ((i * (2 * seed + 1)) % GridSize) - (GridSize \div 2),
     lon |-> ((i * i + seed) % GridSize) - (GridSize \div 2),
     named |-> (i + seed) % 6 # 0,
     tags |-> [shop |-> TagVocabulary[((i + seed) % Len(TagVocabulary)) + 1],
               amenity |-> TagVocabulary[((i * seed + (i \div 4)) % Len(TagVocabulary)) + 1]]]
Elements(n, seed) == [i \in 1..n |-> Element(seed, i)]

OverpassOutcomes ==
    { [kind |-> "networkError"], [kind |-> "notOk"], [kind |-> "badBody"] }
      \cup { [kind |-> "ok", elements |-> Elements(n, seed)] :
                n \in 0..MaxElements, seed \in 1..NumSeeds }

\* Array.prototype.filter
RECURSIVE SelectNamed(_)
SelectNamed(elements) ==
    IF Len(elements) = 0 THEN <<>>
    ELSE IF Head(elements).named
         THEN <<Head(elements)>> \o SelectNamed(Tail(elements))
         ELSE SelectNamed(Tail(elements))

\* Array.prototype.sort with (a, b) => a.distance - b.distance: a stable sort
\* by distance (insertion of each place after the places not farther than it)
RECURSIVE InsertByDistance(_, _)
InsertByDistance(sorted, place) ==
    IF Len(sorted) = 0 THEN <<place>>
    ELSE IF Head(sorted).distance <= place.distance
         THEN <<Head(sorted)>> \o InsertByDistance(Tail(sorted), place)
         ELSE <<place>> \o sorted
RECURSIVE SortByDistance(_)
SortByDistance(places) ==
    IF Len(places) = 0 THEN <<>>
    ELSE InsertByDistance(SortByDistance(SubSeq(places, 1, Len(places) - 1)),
                          places[Len(places)])

\* Array.prototype.slice(0, end)
Slice(seq, end) == SubSeq(seq, 1, IF Len(seq) < end THEN Len(seq) ELSE end)

\* the try block after a well-formed response: filter, map, sort, slice
processElements(coordinates, elements) ==
    LET named == SelectNamed(elements)
        mapped == [i \in DOMAIN named |->
                     [id |-> named[i].id,
                      type |-> getCategoryFromTags(named[i].tags),
                      category |-> getCategoryFromTags(named[i].tags),
                      distance |-> calculateDistance(coordinates,
                                      [lat |-> named[i].lat, lng |-> named[i].lon]),
                      coordinates |-> [lat |-> named[i].lat, lng |-> named[i].lon],
                      mock |-> FALSE]]
    IN Slice(SortByDistance(mapped), MaxResults)

\* the mock establishments; baseDistance in tenths of a kilometre
mockData == <<
    [name |-> "Supermercado Economia",  type |-> "Mercado",     baseDistance |-> 5],
    [name |-> "Farmácia Saúde+",        type |-> "Farmácia",    baseDistance |-> 8],
    [name |-> "Lanchonete Sabor & Cia", type |-> "Lanchonete",  baseDistance |-> 12],
    [name |-> "Mercado Preço Bom",      type |-> "Mercado",     baseDistance |-> 15],
    [name |-> "Café Aroma",             type |-> "Cafeteria",   baseDistance |-> 3],
    [name |-> "Padaria Pão Quente",     type |-> "Padaria",     baseDistance |-> 6],
    [name |-> "Farmácia Popular",       type |-> "Farmácia",    baseDistance |-> 10],
    [name |-> "Restaurante Bom Sabor",  type |-> "Restaurante", baseDistance |-> 9] >>

\* (Math.random() - 0.5) * 0.02 in milli-degrees, for draw number n of the
\* random source in state jitter: a value from -10 to 9
MockOffset(jitter, n) == ((7 * jitter + 3 * n) % 20) - 10

getMockPlaces_jitteredDistance(coordinates, jitter) ==
    [index \in DOMAIN mockData |->
       [id |-> index - 1,
        name |-> mockData[index].name,
        type |-> mockData[index].type,
        category |-> mockData[index].type,
        distance |-> mockData[index].baseDistance + (MockOffset(jitter, index) % 2),
        coordinates |-> [lat |-> coordinates.lat + MockOffset(jitter, 2 * index - 1),
                         lng |-> coordinates.lng + MockOffset(jitter, 2 * index)],
        mock |-> TRUE]]
getMockPlaces(coordinates, jitter) ==
    [index \in DOMAIN mockData |->
       [id |-> index - 1,
        name |-> mockData[index].name,
        type |-> mockData[index].type,
        category |-> mockData[index].type,
        distance |-> mockData[index].baseDistance,
        coordinates |-> [lat |-> coordinates.lat + MockOffset(jitter, 2 * index - 1),
                         lng |-> coordinates.lng + MockOffset(jitter, 2 * index)],
        mock |-> TRUE]]

\* searchNearbyPlaces up to the await of fetch: one request is issued
searchNearbyPlaces(coordinates) ==
    /\ finder.phase # "requested"
    /\ finder' = [phase |-> "requested", coordinates |-> coordinates, requests |-> 1]

finishSearchNearbyPlaces_retries(outcome, jitter) ==
    /\ finder.phase = "requested"
    /\ finder' = IF outcome.kind # "ok" /\ finder.requests < 2
                 THEN [finder EXCEPT !.requests = @ + 1]
                 ELSE [phase |-> "returned",
                       coordinates |-> finder.coordinates,
                       requests |-> finder.requests,
                       outcome |-> outcome.kind,
                       places |-> IF outcome.kind = "ok"
                                  THEN processElements(finder.coordinates, outcome.elements)
                                  ELSE getMockPlaces(finder.coordinates, jitter)]
\* searchNearbyPlaces from the settled fetch to its return
finishSearchNearbyPlaces(outcome, jitter) ==
    /\ finder.phase = "requested"
    /\ finder' = [phase |-> "returned",
                  coordinates |-> finder.coordinates,
                  requests |-> finder.requests,
                  outcome |-> outcome.kind,
                  places |-> IF outcome.kind = "ok"
                             THEN processElements(finder.coordinates, outcome.elements)
                             ELSE getMockPlaces(finder.coordinates, jitter)]

SearchNearbyPlaces == \E c \in QueryPoints :
    searchNearbyPlaces(c) /\ UNCHANGED <<authVars, quizVars, pureVars, google, libVars>>
FinishSearchNearbyPlaces == \E outcome \in OverpassOutcomes, jitter \in 1..NumJitters :
    finishSearchNearbyPlaces(outcome, jitter) /\ UNCHANGED <<authVars, quizVars, pureVars, google, libVars>>

----------------------------------------------------------------------------
(* lib/google-places: searchPlacesWithGoogle, getPlaceDetails              *)

MaxGoogleResults == 2   \* places in a Nearby Search response

\* typeMap[ourType] || 'establishment'
mapToGooglePlaceType(ourType) ==
    CASE ourType = "Mercado" -> "supermarket"
      [] ourType = "Farmácia" -> "pharmacy"
      [] ourType = "Lanchonete" -> "restaurant"
      [] ourType = "Cafeteria" -> "cafe"
      [] ourType = "Padaria" -> "bakery"
      [] ourType = "Restaurante" -> "restaurant"
      [] ourType = "Loja" -> "store"
      [] ourType = "all" -> "establishment"
      [] OTHER -> "establishment"

mapGoogleTypeToOurType_passThrough(googleType) ==
    CASE googleType = "supermarket" -> "Mercado"
      [] googleType = "grocery_or_supermarket" -> "Mercado"
      [] googleType = "pharmacy" -> "Farmácia"
      [] googleType = "drugstore" -> "Farmácia"
      [] googleType = "restaurant" -> "Restaurante"
      [] googleType = "cafe" -> "Cafeteria"
      [] googleType = "bakery" -> "Padaria"
      [] googleType = "food" -> "Lanchonete"
      [] googleType = "meal_takeaway" -> "Lanchonete"
      [] googleType = "store" -> "Loja"
      [] OTHER -> googleType
\* typeMap[googleType] || 'Loja'
mapGoogleTypeToOurType(googleType) ==
    CASE googleType = "supermarket" -> "Mercado"
      [] googleType = "grocery_or_supermarket" -> "Mercado"
      [] googleType = "pharmacy" -> "Farmácia"
      [] googleType = "drugstore" -> "Farmácia"
      [] googleType = "restaurant" -> "Restaurante"
      [] googleType = "cafe" -> "Cafeteria"
      [] googleType = "bakery" -> "Padaria"
      [] googleType = "food" -> "Lanchonete"
      [] googleType = "meal_takeaway" -> "Lanchonete"
      [] googleType = "store" -> "Loja"
      [] OTHER -> "Loja"

\* the category argument: the page's category ids and the quiz's result types
SearchCategories == { "all", "Mercado", "Farmácia", "Lanchonete", "Cafeteria", "Padaria",
                      "Restaurante" }

\* first entries of place.types in a response: the mapped Google types, three
\* that are not mapped, and a place without types
GoogleTypes == <<"supermarket", "grocery_or_supermarket", "pharmacy", "drugstore",
                 "restaurant", "cafe", "bakery", "food", "meal_takeaway", "store",
                 "establishment", "point_of_interest", "hair_care", undefined>>

\* data.results of a response: n places, the types fixed by (k, i)
GoogleResults(n, k) ==
    [i \in 1..n |-> [place_id |-> i,
                     types0 |-> GoogleTypes[((k + 3 * (i - 1) - 1) % Len(GoogleTypes)) + 1]]]

GoogleOutcomes ==
    { [kind |-> "networkError"],
      [kind |-> "status", status |-> "REQUEST_DENIED", results |-> <<>>, geometry |-> TRUE],
      [kind |-> "status", status |-> "ZERO_RESULTS", results |-> <<>>, geometry |-> TRUE],
      [kind |-> "status", status |-> "OK", results |-> <<>>, geometry |-> TRUE],
      \* a place without geometry: reading place.geometry.location throws
      [kind |-> "status", status |-> "OK", results |-> GoogleResults(1, 1),
       geometry |-> FALSE] }
      \cup { [kind |-> "status", status |-> "OK", results |-> GoogleResults(n, k),
              geometry |-> TRUE] :
                n \in 1..MaxGoogleResults, k \in DOMAIN GoogleTypes }

searchPlacesWithGoogle_fetchesFirst(type, apiKey) ==
    /\ google.phase # "requested"
    /\ google' = [phase |-> "requested", op |-> "search", apiKey |-> apiKey,
                  requests |-> 1, type |-> type,
                  googleType |-> mapToGooglePlaceType(type)]
\* searchPlacesWithGoogle up to the await of fetch; without an API key it
\* returns the empty list at once
searchPlacesWithGoogle(type, apiKey) ==
    /\ google.phase # "requested"
    /\ google' = IF ~apiKey
                 THEN [phase |-> "returned", op |-> "search", apiKey |-> apiKey,
                       requests |-> 0, type |-> type, places |-> <<>>]
                 ELSE [phase |-> "requested", op |-> "search", apiKey |-> apiKey,
                       requests |-> 1, type |-> type,
                       googleType |-> mapToGooglePlaceType(type)]

\* searchPlacesWithGoogle from the settled fetch to its return; whatever is
\* thrown after the key check is caught and becomes the empty list
finishSearchPlacesWithGoogle(outcome) ==
    /\ google.phase = "requested"
    /\ google.op = "search"
    /\ google' =
         [phase |-> "returned",
          op |-> "search",
          apiKey |-> google.apiKey,
          requests |-> google.requests,
          type |-> google.type,
          places |->
            IF outcome.kind = "networkError" THEN <<>>
            ELSE IF outcome.status # "OK" /\ outcome.status # "ZERO_RESULTS" THEN <<>>
            ELSE IF ~outcome.geometry THEN <<>>
            ELSE [i \in DOMAIN outcome.results |->
                    [id |-> outcome.results[i].place_id,
                     type |-> mapGoogleTypeToOurType(
                                IF outcome.results[i].types0 = undefined
                                THEN google.googleType
                                ELSE outcome.results[i].types0)]]]

\* outcomes of the Place Details request: a failed fetch or unreadable body, a
\* status other than OK, and an OK response whose result has or lacks geometry
DetailsOutcomes ==
    { [kind |-> "networkError"],
      [kind |-> "status", status |-> "NOT_FOUND", types0 |-> undefined, geometry |-> TRUE],
      [kind |-> "status", status |-> "OK", types0 |-> "cafe", geometry |-> FALSE] }
      \cup { [kind |-> "status", status |-> "OK", types0 |-> GoogleTypes[k],
              geometry |-> TRUE] : k \in DOMAIN GoogleTypes }

NoPlace == [kind |-> "null"]
PlaceIds == 1..2

\* getPlaceDetails up to the await of fetch; without an API key it returns
\* null at once
getPlaceDetails(placeId, apiKey) ==
    /\ google.phase # "requested"
    /\ google' = IF ~apiKey
                 THEN [phase |-> "returned", op |-> "details", apiKey |-> apiKey,
                       requests |-> 0, placeId |-> placeId, result |-> NoPlace]
                 ELSE [phase |-> "requested", op |-> "details", apiKey |-> apiKey,
                       requests |-> 1, placeId |-> placeId]

\* getPlaceDetails from the settled fetch to its return
\* (type: mapGoogleTypeToOurType(place.types?.[0] || ''))
finishGetPlaceDetails(outcome) ==
    /\ google.phase = "requested"
    /\ google.op = "details"
    /\ google' =
         [phase |-> "returned",
          op |-> "details",
          apiKey |-> google.apiKey,
          requests |-> google.requests,
          placeId |-> google.placeId,
          result |->
            IF outcome.kind = "networkError" THEN NoPlace
            ELSE IF outcome.status # "OK" THEN NoPlace
            ELSE IF ~outcome.geometry THEN NoPlace
            ELSE [kind |-> "place",
                  id |-> google.placeId,
                  type |-> mapGoogleTypeToOurType(
                             IF outcome.types0 = undefined THEN ""
                             ELSE outcome.types0)]]

SearchPlacesWithGoogle == \E type \in SearchCategories, apiKey \in BOOLEAN :
    searchPlacesWithGoogle(type, apiKey)
      /\ UNCHANGED <<authVars, quizVars, pureVars, finder, libVars>>
FinishSearchPlacesWithGoogle == \E outcome \in GoogleOutcomes :
    finishSearchPlacesWithGoogle(outcome)
      /\ UNCHANGED <<authVars, quizVars, pureVars, finder, libVars>>
GetPlaceDetails == \E placeId \in PlaceIds, apiKey \in BOOLEAN :
    getPlaceDetails(placeId, apiKey)
      /\ UNCHANGED <<authVars, quizVars, pureVars, finder, libVars>>
FinishGetPlaceDetails == \E outcome \in DetailsOutcomes :
    finishGetPlaceDetails(outcome)
      /\ UNCHANGED <<authVars, quizVars, pureVars, finder, libVars>>

----------------------------------------------------------------------------
(* lib/geolocation: getAddressFromCEP, getCoordinatesFromAddress, and the  *)
(* geocoding part of the page's handleSearch                               *)

MaxCepLen == 9          \* digits in the longest postal code typed

DigitChars == <<"0", "1", "2", "3", "4", "5", "6", "7", "8", "9">>
IsDigit(c) == \E i \in DOMAIN DigitChars : DigitChars[i] = c

\* the typed texts: runs of 0..MaxCepLen digits, the same with one hyphen,
\* letter or blank put in at any position, and city names
DigitRun(n) == [i \in 1..n |-> DigitChars[(i % 10) + 1]]
InsertAt(s, pos, c) == SubSeq(s, 1, pos) \o <<c>> \o SubSeq(s, pos + 1, Len(s))
CityTexts == { <<"R", "i", "o">>,
               <<"R", "i", "o", " ", "-", " ", "R", "J">>,
               <<"X", "-", "Y">> }
Locations ==
    { DigitRun(n) : n \in 0..MaxCepLen }
      \cup UNION { { InsertAt(DigitRun(n), pos, c) : pos \in 0..n, c \in {"-", "a", " "} } :
                      n \in 0..MaxCepLen }
      \cup CityTexts

\* String.prototype.trim
RECURSIVE Trim(_)
Trim(s) ==
    IF Len(s) = 0 THEN s
    ELSE IF Head(s) = " " THEN Trim(Tail(s))
    ELSE IF s[Len(s)] = " " THEN Trim(SubSeq(s, 1, Len(s) - 1))
    ELSE s

\* /^\d{5}-?\d{3}$/.test(s)
IsCEP(s) ==
    \/ Len(s) = 8 /\ \A i \in 1..8 : IsDigit(s[i])
    \/ Len(s) = 9 /\ s[6] = "-" /\ \A i \in (1..9) \ {6} : IsDigit(s[i])

cleanCEP_keep(cep) == cep
\* cep.replace(/\D/g, '')
RECURSIVE cleanCEP(_)
cleanCEP(cep) ==
    IF Len(cep) = 0 THEN <<>>
    ELSE IF IsDigit(Head(cep)) THEN <<Head(cep)>> \o cleanCEP(Tail(cep))
    ELSE cleanCEP(Tail(cep))

\* location.split(" - "): the text before the first separator, and the text
\* between the first and the second one (undefined when there is no separator)
Separator == <<" ", "-", " ">>
SeparatorAt(s, from) ==
    IF \E i \in from..(Len(s) - 2) : SubSeq(s, i, i + 2) = Separator
    THEN CHOOSE i \in from..(Len(s) - 2) :
            /\ SubSeq(s, i, i + 2) = Separator
            /\ \A j \in from..(i - 1) : SubSeq(s, j, j + 2) # Separator
    ELSE 0
cityParts(s) ==
    LET first == SeparatorAt(s, 1)
        second == IF first = 0 THEN 0 ELSE SeparatorAt(s, first + 3)
    IN IF first = 0 THEN [city |-> s, state |-> <<>>]
       ELSE [city |-> SubSeq(s, 1, first - 1),
             state |-> SubSeq(s, first + 3, IF second = 0 THEN Len(s) ELSE second - 1)]

Brasil == <<"B", "r", "a", "s", "i", "l">>
Comma == <<",", " ">>
\* getCoordinatesFromCity: an empty state is falsy and left out of the query
cityQuery(city, state) ==
    IF Len(state) > 0 THEN city \o Comma \o state \o Comma \o Brasil
    ELSE city \o Comma \o Brasil

\* coordinates in units of 0.0001 degree
FallbackCoordinates == [lat |-> -235505, lng |-> -466333]

\* what the postal-code service answers, and what the address search answers
ViaCepOutcomes ==
    { [kind |-> "networkError"], [kind |-> "notOk"], [kind |-> "badBody"],
      [kind |-> "erro"],
      [kind |-> "ok", logradouro |-> <<"R", "u", "a">>, localidade |-> <<"R", "i", "o">>,
                      uf |-> <<"R", "J">>] }
NominatimOutcomes ==
    { [kind |-> "networkError"], [kind |-> "notOk"], [kind |-> "badBody"],
      [kind |-> "empty"],
      [kind |-> "found", lat |-> -229068, lon |-> -431729],
      [kind |-> "found", lat |-> -235505, lon |-> -466333] }

Null == [kind |-> "null"]
Threw == [kind |-> "rejected"]

getCoordinatesFromAddress_rethrows(outcome) ==
    IF outcome.kind = "found"
    THEN [kind |-> "coordinates", lat |-> outcome.lat, lng |-> outcome.lon]
    ELSE IF outcome.kind = "empty" THEN Null
    ELSE Threw
\* the value getCoordinatesFromAddress resolves with once its fetch has settled
getCoordinatesFromAddress(outcome) ==
    IF outcome.kind = "found"
    THEN [kind |-> "coordinates", lat |-> outcome.lat, lng |-> outcome.lon]
    ELSE Null

addressInfo_noFallback(data, coordinates) ==
    [kind |-> "addressInfo", city |-> data.localidade, coordinates |-> coordinates]
\* the record getAddressFromCEP returns: coordinates || fallback
addressInfo(data, coordinates) ==
    [kind |-> "addressInfo",
     city |-> data.localidade,
     coordinates |-> IF coordinates.kind = "coordinates"
                     THEN [lat |-> coordinates.lat, lng |-> coordinates.lng]
                     ELSE FallbackCoordinates]

GeoIdle == [phase |-> "idle", entry |-> "none", location |-> <<>>, path |-> "none",
            cep |-> <<>>, data |-> [kind |-> "none"], requests |-> <<>>, viacep |-> "none", nominatim |-> "none",
            addressInfo |-> [kind |-> "none"], coordLookup |-> [kind |-> "none"],
            coordinates |-> [kind |-> "none"], error |-> "", isSearching |-> FALSE]

\* handleSearch once getAddressFromCEP has returned its value
afterGetAddressFromCEP(g, info) ==
    IF g.entry # "handleSearch"
    THEN [g EXCEPT !.phase = "returned", !.addressInfo = info]
    ELSE IF info.kind = "addressInfo"
    THEN [g EXCEPT !.phase = "searching", !.addressInfo = info,
                   !.coordinates = info.coordinates]
    ELSE [g EXCEPT !.phase = "error", !.addressInfo = info,
                   !.error = "CEP não encontrado. Tente novamente.",
                   !.isSearching = FALSE]

\* getAddressFromCEP up to its first await
getAddressFromCEP(g, cep) ==
    LET called == [g EXCEPT !.path = "cep", !.cep = cep]
    IN IF Len(cleanCEP(cep)) # 8
       THEN afterGetAddressFromCEP(called, Null)
       ELSE [called EXCEPT !.phase = "viacep",
                           !.requests = Append(@, [service |-> "viacep",
                                                   text |-> cleanCEP(cep)])]

\* handleSearch up to its first await
handleSearch(location) ==
    /\ geo.phase \notin {"viacep", "nominatim"}
    /\ geo' =
         LET text == Trim(location)
             started == [GeoIdle EXCEPT !.entry = "handleSearch", !.location = location,
                                        !.isSearching = TRUE]
         IN IF Len(text) = 0
            THEN [GeoIdle EXCEPT !.entry = "handleSearch", !.location = location,
                                 !.phase = "error", !.error = "Digite um CEP ou cidade"]
            ELSE IF IsCEP(text)
            THEN getAddressFromCEP(started, text)
            ELSE [started EXCEPT
                    !.path = "city", !.phase = "nominatim",
                    !.requests = Append(@, [service |-> "nominatim",
                                            text |-> cityQuery(cityParts(text).city,
                                                               cityParts(text).state)])]

\* a call of the exported getAddressFromCEP on any text
callGetAddressFromCEP(cep) ==
    /\ geo.phase \notin {"viacep", "nominatim"}
    /\ geo' = getAddressFromCEP([GeoIdle EXCEPT !.entry = "getAddressFromCEP",
                                                !.location = cep], cep)

\* getAddressFromCEP from the settled postal-code request to its next await
settleViaCep(outcome) ==
    /\ geo.phase = "viacep"
    /\ geo' =
         LET g == [geo EXCEPT !.viacep = outcome.kind]
         IN IF outcome.kind # "ok"
            THEN afterGetAddressFromCEP(g, Null)
            ELSE [g EXCEPT !.phase = "nominatim",
                           !.data = outcome,
                           !.requests = Append(@, [service |-> "nominatim",
                                 text |-> outcome.logradouro \o Comma \o outcome.localidade
                                            \o Comma \o outcome.uf \o Comma \o Brasil])]

\* from the settled address search to the end of the geocoding
settleNominatim(outcome) ==
    /\ geo.phase = "nominatim"
    /\ geo' =
         LET found == getCoordinatesFromAddress(outcome)
             g == [geo EXCEPT !.nominatim = outcome.kind, !.coordLookup = found]
         IN IF g.path = "cep"
            THEN \* a rejection is caught by the try block of getAddressFromCEP
                 IF found.kind = "rejected" THEN afterGetAddressFromCEP(g, Null)
                 ELSE afterGetAddressFromCEP(g, addressInfo(g.data, found))
            ELSE IF found.kind = "rejected"
            THEN [g EXCEPT !.phase = "error",
                           !.error = "Erro ao buscar estabelecimentos. Tente novamente.",
                           !.isSearching = FALSE]
            ELSE IF found.kind = "null"
            THEN [g EXCEPT !.phase = "error",
                           !.error = "Cidade não encontrada. Tente novamente.",
                           !.isSearching = FALSE]
            ELSE [g EXCEPT !.phase = "searching",
                           !.coordinates = [lat |-> found.lat, lng |-> found.lng]]

HandleSearch == \E location \in Locations :
    handleSearch(location)
      /\ UNCHANGED <<authVars, quizVars, pureVars, finderVars, catVars, genVars, priceVars,
                   moreVars>>
CallGetAddressFromCEP == \E cep \in Locations :
    callGetAddressFromCEP(cep)
      /\ UNCHANGED <<authVars, quizVars, pureVars, finderVars, catVars, genVars, priceVars,
                   moreVars>>
SettleViaCep == \E outcome \in ViaCepOutcomes :
    settleViaCep(outcome)
      /\ UNCHANGED <<authVars, quizVars, pureVars, finderVars, catVars, genVars, priceVars,
                   moreVars>>
SettleNominatim == \E outcome \in NominatimOutcomes :
    settleNominatim(outcome)
      /\ UNCHANGED <<authVars, quizVars, pureVars, finderVars, catVars, genVars, priceVars,
                   moreVars>>

----------------------------------------------------------------------------
(* lib/geolocation and the page: calculateDistance on the whole globe      *)

MaxUlps == 1            \* rounding error of the computed haversine term, in ulps

\* points with latitude -60, 0 or 60 and longitude a multiple of 90 degrees,
\* in whole degrees: the trigonometric terms of these are rational
GlobePoints == { [lat |-> 60 * i, lng |-> 90 * j] : i \in -1..1, j \in -2..2 }

\* 16 * sin(x/2)^2 for x = toRad(dLat), dLat a multiple of 60 degrees
sinSquaredHalfLat(dLat) ==
    CASE dLat = 0 -> 0
      [] dLat \in {60, -60} -> 4
      [] dLat \in {120, -120} -> 12

\* 2 * sin(x/2)^2 for x = toRad(dLng), dLng a multiple of 90 degrees
sinSquaredHalfLng(dLng) ==
    CASE dLng \in {0, 360, -360} -> 0
      [] dLng \in {90, -90, 270, -270} -> 1
      [] dLng \in {180, -180} -> 2

\* 2 * Math.cos(toRad(lat))
cosLat(lat) == IF lat = 0 THEN 2 ELSE 1

\* the term a of the haversine formula, exactly, in sixteenths
haversineTerm(coord1, coord2) ==
    LET dLat == coord2.lat - coord1.lat
        dLng == coord2.lng - coord1.lng
    IN sinSquaredHalfLat(dLat)
         + 2 * cosLat(coord1.lat) * cosLat(coord2.lat) * sinSquaredHalfLng(dLng)

\* Math.round(R * c * 10) for c = 2 * atan2(sqrt(a), sqrt(1 - a)), R = 6371,
\* by the sixteenths of a
roundedArc == <<0, 32197, 46045, 57063, 66717, 75586, 83977, 92091, 100075, 108060,
                116174, 124565, 133434, 143088, 154105, 167954, 200151>>

NaN == [kind |-> "NaN"]
Number(tenths) == [kind |-> "number", tenths |-> tenths]

\* Math.sin and Math.cos are implementation-approximated: the computed a is
\* the exact one up to a rounding error of ulps. The error changes the result
\* only where it lifts a above 1: Math.sqrt(1 - a) is then NaN, and so are c
\* and the returned value.
calculateDistanceOnGlobe(coord1, coord2, ulps) ==
    LET a == haversineTerm(coord1, coord2)
    IN IF a = 16 /\ ulps > 0 THEN NaN ELSE Number(roundedArc[a + 1])

\* the page's own copy of the function: the same expression without toRad
pageCalculateDistance(coord1, coord2, ulps) ==
    LET a == haversineTerm(coord1, coord2)
    IN IF a = 16 /\ ulps > 0 THEN NaN ELSE Number(roundedArc[a + 1])

\* calculateDistance(A, B) and calculateDistance(B, A): the two evaluations
\* mirror each other term by term (dLat and dLng change sign, the cosines
\* swap), so they round alike
CalculateDistance == \E ulps \in -MaxUlps..MaxUlps, pageUlps \in -MaxUlps..MaxUlps :
    /\ distCall.phase = "pending"
    /\ distCall' = [phase |-> "returned",
                    coord1 |-> distCall.coord1,
                    coord2 |-> distCall.coord2,
                    forward |-> calculateDistanceOnGlobe(distCall.coord1, distCall.coord2, ulps),
                    backward |-> calculateDistanceOnGlobe(distCall.coord2, distCall.coord1, ulps),
                    pageForward |-> pageCalculateDistance(distCall.coord1, distCall.coord2, pageUlps),
                    pageBackward |-> pageCalculateDistance(distCall.coord2, distCall.coord1, pageUlps)]
    /\ UNCHANGED <<authVars, quizVars, pureVars, finderVars, catVars, genVars, geoVars,
                   priceVars, locator, cities, page>>

----------------------------------------------------------------------------
(* lib/geolocation: getCurrentLocation                                     *)

MaxLocates == 4         \* calls of getCurrentLocation

\* positions the browser reports, in 0.0001 degree
Positions == { [lat |-> -235505, lng |-> -466333], [lat |-> -229068, lng |-> -431729],
               [lat |-> -157939, lng |-> -478828] }

\* GeolocationPositionError.code: PERMISSION_DENIED, POSITION_UNAVAILABLE,
\* TIMEOUT, and a code the switch does not list
PERMISSION_DENIED == 1
POSITION_UNAVAILABLE == 2
TIMEOUT == 3
ErrorCodes == { 0, PERMISSION_DENIED, POSITION_UNAVAILABLE, TIMEOUT }

UnsupportedMessage ==
    "Seu navegador não suporta geolocalização. Tente usar um navegador mais recente."
DeniedMessage ==
    "Você negou o acesso à localização. Para usar esta função, vá em Configurações do navegador > Privacidade e Segurança > Permissões do site > Localização e permita o acesso para este site."
TimerMessage ==
    "Tempo esgotado ao buscar sua localização. Verifique se o GPS está ativado e tente novamente."

\* the switch of the error callback
errorMessage(code) ==
    CASE code = PERMISSION_DENIED ->
           "Você negou o acesso à localização. Clique no ícone de cadeado ao lado da URL e permita o acesso à localização."
      [] code = POSITION_UNAVAILABLE ->
           "Localização indisponível no momento. Verifique se o GPS está ativado e se você está em um local com boa conexão."
      [] code = TIMEOUT ->
           "Tempo esgotado ao buscar localização. Verifique sua conexão e tente novamente."
      [] OTHER -> "Erro desconhecido ao obter localização. Tente novamente."

\* outcomes of navigator.permissions.query; a rejected query counts as 'prompt'
PermissionOutcomes == { "granted", "denied", "prompt", "throws" }

Unsettled == [kind |-> "pending"]
Fulfilled(value) == [kind |-> "fulfilled", value |-> value]
RejectedWith(message) == [kind |-> "rejected", message |-> message]

\* resolve / reject of a promise: a settled promise stays as it is
settle(promise, outcome) == IF promise.kind = "pending" THEN outcome ELSE promise

\* getCurrentLocation after checkGeolocationPermission has returned
afterPermission(calls, permission) ==
    IF permission = "unsupported"
    THEN [phase |-> "settled", calls |-> calls, permission |-> permission,
          promise |-> RejectedWith(UnsupportedMessage), timer |-> "none",
          answered |-> "none", received |-> [kind |-> "none"],
          firedAfterAnswer |-> FALSE]
    ELSE IF permission = "denied"
    THEN [phase |-> "settled", calls |-> calls, permission |-> permission,
          promise |-> RejectedWith(DeniedMessage), timer |-> "none",
          answered |-> "none", received |-> [kind |-> "none"],
          firedAfterAnswer |-> FALSE]
    ELSE \* setTimeout(..., 20000) and navigator.geolocation.getCurrentPosition(...)
         [phase |-> "waiting", calls |-> calls, permission |-> permission,
          promise |-> Unsettled, timer |-> "armed",
          answered |-> "no", received |-> [kind |-> "none"],
          firedAfterAnswer |-> FALSE]

\* getCurrentLocation up to the first await that suspends it
getCurrentLocation(geolocation, permissions) ==
    /\ locator.phase \in {"idle", "settled"}
    /\ locator.calls < MaxLocates
    /\ locator' =
         IF ~geolocation THEN afterPermission(locator.calls + 1, "unsupported")
         ELSE IF ~permissions THEN afterPermission(locator.calls + 1, "prompt")
         ELSE [phase |-> "checking", calls |-> locator.calls + 1]

\* navigator.permissions.query settles
settlePermission(outcome) ==
    /\ locator.phase = "checking"
    /\ locator' = afterPermission(locator.calls,
                                  IF outcome = "throws" THEN "prompt" ELSE outcome)

\* the promise has settled: the call is over for the caller
phaseOf(promise) == IF promise.kind = "pending" THEN "waiting" ELSE "settled"

onPosition_keepsTimer(position) ==
    /\ locator.phase \in {"waiting", "settled"}
    /\ locator.answered = "no"
    /\ LET promise == settle(locator.promise, Fulfilled(position)) IN
       locator' = [locator EXCEPT !.answered = "position",
                                  !.received = [kind |-> "position", position |-> position],
                                  !.promise = promise,
                                  !.phase = phaseOf(promise)]
\* the success callback of getCurrentPosition
onPosition(position) ==
    /\ locator.phase \in {"waiting", "settled"}
    /\ locator.answered = "no"
    /\ LET promise == settle(locator.promise, Fulfilled(position)) IN
       locator' = [locator EXCEPT !.answered = "position",
                                  !.received = [kind |-> "position", position |-> position],
                                  !.timer = IF @ = "armed" THEN "cleared" ELSE @,
                                  !.promise = promise,
                                  !.phase = phaseOf(promise)]

\* the error callback of getCurrentPosition
onPositionError(code) ==
    /\ locator.phase \in {"waiting", "settled"}
    /\ locator.answered = "no"
    /\ LET promise == settle(locator.promise, RejectedWith(errorMessage(code))) IN
       locator' = [locator EXCEPT !.answered = "error",
                                  !.received = [kind |-> "error", code |-> code],
                                  !.timer = IF @ = "armed" THEN "cleared" ELSE @,
                                  !.promise = promise,
                                  !.phase = phaseOf(promise)]

\* the callback of setTimeout(..., 20000)
onTimer ==
    /\ locator.phase \in {"waiting", "settled"}
    /\ locator.timer = "armed"
    /\ LET promise == settle(locator.promise, RejectedWith(TimerMessage)) IN
       locator' = [locator EXCEPT !.timer = "fired",
                                  !.firedAfterAnswer = locator.answered # "no",
                                  !.promise = promise,
                                  !.phase = phaseOf(promise)]

GetCurrentLocation == \E geolocation \in BOOLEAN, permissions \in BOOLEAN :
    getCurrentLocation(geolocation, permissions) /\ UNCHANGED otherThanLocator
SettlePermission == \E outcome \in PermissionOutcomes :
    settlePermission(outcome) /\ UNCHANGED otherThanLocator
OnPosition == \E position \in Positions :
    onPosition(position) /\ UNCHANGED otherThanLocator
OnPositionError == \E code \in ErrorCodes :
    onPositionError(code) /\ UNCHANGED otherThanLocator
OnTimer == onTimer /\ UNCHANGED otherThanLocator

----------------------------------------------------------------------------
(* lib/city-autocomplete: searchCitiesWithCache                            *)

MaxCityCalls == 3       \* calls of searchCitiesWithCache

\* toLowerCase, then NFD without the combining marks, of one character
normalizeChar(c) ==
    CASE c = "S" -> "s"
      [] c = "R" -> "r"
      [] c = "P" -> "p"
      [] c = "O" -> "o"
      [] c = "ã" -> "a"
      [] c = "Ã" -> "a"
      [] OTHER -> c

normalizeString(str) == [i \in DOMAIN str |-> normalizeChar(str[i])]

\* the municipalities of a response of the IBGE API: name and state code
\* (undefined where the nested UF is missing)
IbgeLists ==
    { <<>>,
      << [id |-> 3550308, nome |-> <<"S", "ã", "o", " ", "P", "a", "u", "l", "o">>, UF |-> "SP"],
         [id |-> 3548500, nome |-> <<"S", "a", "n", "t", "o", "s">>, UF |-> "SP"],
         [id |-> 3304557, nome |-> <<"R", "i", "o">>, UF |-> undefined] >>,
      << [id |-> 3304557, nome |-> <<"R", "i", "o">>, UF |-> "RJ"] >> }

CityQueries == { <<>>, <<"s">>, <<"s", "a">>, <<"S", "Ã", "O">>, <<"r", "i">>, <<"x", "y">> }

\* outcomes of the fetch of the municipality list and of reading its body
IbgeOutcomes ==
    { [kind |-> "networkError"], [kind |-> "notOk"], [kind |-> "badBody"] }
      \cup { [kind |-> "ok", data |-> data] : data \in IbgeLists }

\* data.map(city => ({ id, name, state, displayName }))
cityOptions(data) ==
    [i \in DOMAIN data |->
       [id |-> data[i].id,
        name |-> data[i].nome,
        state |-> IF data[i].UF = undefined THEN "BR" ELSE data[i].UF]]

RECURSIVE matchingCities(_, _)
matchingCities(list, normalizedQuery) ==
    IF list = <<>> THEN <<>>
    ELSE LET rest == matchingCities(Tail(list), normalizedQuery) IN
         IF Includes(normalizeString(Head(list).name), normalizedQuery)
         THEN <<Head(list)>> \o rest
         ELSE rest

\* citiesCache.filter(...).slice(0, 10)
filterCities(cache, query) == Slice(matchingCities(cache, normalizeString(query)), 10)

NoCache == [kind |-> "null"]
Cache(list) == [kind |-> "list", list |-> list]

CitiesIdle == [cache |-> NoCache, started |-> 0, requests |-> 0, pending |-> {},
               returned |-> [id |-> 0]]

Returned(id, query, via, outcome, cityList) ==
    [id |-> id, query |-> query, via |-> via, outcome |-> outcome, result |-> cityList]

\* searchCitiesWithCache up to its return or to the await of fetch
searchCitiesWithCache(query) ==
    LET id == cities.started + 1 IN
    /\ cities.started < MaxCityCalls
    /\ cities' =
         IF Falsy(query) \/ Len(query) < 2
         THEN [cities EXCEPT !.started = id,
                             !.returned = Returned(id, query, "short", "none", <<>>)]
         ELSE IF cities.cache.kind = "null"
         THEN [cities EXCEPT !.started = id,
                             !.requests = @ + 1,
                             !.pending = @ \cup {[id |-> id, query |-> query]}]
         ELSE [cities EXCEPT !.started = id,
                             !.returned = Returned(id, query, "cache", "none",
                                                   filterCities(cities.cache.list, query))]

settleCitiesFetch_cachesFailure(call, outcome) ==
    /\ call \in cities.pending
    /\ LET list == IF outcome.kind = "ok" THEN cityOptions(outcome.data) ELSE <<>> IN
       cities' = [cities EXCEPT
                    !.pending = @ \ {call},
                    !.cache = Cache(list),
                    !.returned = Returned(call.id, call.query, "fetch", outcome.kind,
                                          filterCities(list, call.query))]
\* searchCitiesWithCache from the settled fetch to its return: a failed fetch,
\* a response that is not ok and an unreadable body are caught and give []
settleCitiesFetch(call, outcome) ==
    /\ call \in cities.pending
    /\ cities' =
         IF outcome.kind = "ok"
         THEN LET list == cityOptions(outcome.data) IN
              [cities EXCEPT
                 !.pending = @ \ {call},
                 !.cache = Cache(list),
                 !.returned = Returned(call.id, call.query, "fetch", outcome.kind,
                                       filterCities(list, call.query))]
         ELSE [cities EXCEPT
                 !.pending = @ \ {call},
                 !.returned = Returned(call.id, call.query, "fetch", outcome.kind, <<>>)]

SearchCitiesWithCache == \E query \in CityQueries :
    searchCitiesWithCache(query) /\ UNCHANGED otherThanCities
SettleCitiesFetch == \E call \in cities.pending, outcome \in IbgeOutcomes :
    settleCitiesFetch(call, outcome) /\ UNCHANGED otherThanCities

----------------------------------------------------------------------------
(* lib/places: generateRealisticProducts                                   *)

RandomSteps == 4        \* values of Math.random() offered: k / RandomSteps, k < RandomSteps

\* the product tables, basePrice in centavos
productsByCategory == <<
    [category |-> "Mercado",
     table |-> <<
          [name |-> "Arroz Tipo 1 5kg", basePrice |-> 2490],
          [name |-> "Feijão Carioca 1kg", basePrice |-> 850],
          [name |-> "Óleo de Soja 900ml", basePrice |-> 790],
          [name |-> "Açúcar Cristal 1kg", basePrice |-> 490],
          [name |-> "Café Torrado 500g", basePrice |-> 1490],
          [name |-> "Leite Integral 1L", basePrice |-> 550],
          [name |-> "Macarrão Espaguete 500g", basePrice |-> 390],
          [name |-> "Farinha de Trigo 1kg", basePrice |-> 550],
          [name |-> "Sal Refinado 1kg", basePrice |-> 250],
          [name |-> "Molho de Tomate 340g", basePrice |-> 320] >>],
    [category |-> "Farmácia",
     table |-> <<
          [name |-> "Dipirona Sódica 500mg", basePrice |-> 990],
          [name |-> "Vitamina C 1g", basePrice |-> 1850],
          [name |-> "Protetor Solar FPS 50", basePrice |-> 4890],
          [name |-> "Paracetamol 750mg", basePrice |-> 1150],
          [name |-> "Álcool Gel 70% 500ml", basePrice |-> 1490],
          [name |-> "Ibuprofeno 600mg", basePrice |-> 1590],
          [name |-> "Esmalte Colorido", basePrice |-> 790],
          [name |-> "Shampoo Anticaspa 400ml", basePrice |-> 2290],
          [name |-> "Fralda Descartável M", basePrice |-> 4290],
          [name |-> "Termômetro Digital", basePrice |-> 2890] >>],
    [category |-> "Lanchonete",
     table |-> <<
          [name |-> "X-Burger Artesanal", basePrice |-> 2290],
          [name |-> "Refrigerante Lata 350ml", basePrice |-> 650],
          [name |-> "Batata Frita Grande", basePrice |-> 1590],
          [name |-> "Hot Dog Completo", basePrice |-> 1250],
          [name |-> "Suco Natural 500ml", basePrice |-> 1090],
          [name |-> "X-Salada", basePrice |-> 1890],
          [name |-> "Milk Shake", basePrice |-> 1490],
          [name |-> "Porção de Onion Rings", basePrice |-> 1690],
          [name |-> "Sanduíche Natural", basePrice |-> 1190],
          [name |-> "Açaí 500ml", basePrice |-> 1890] >>],
    [category |-> "Cafeteria",
     table |-> <<
          [name |-> "Café Expresso", basePrice |-> 750],
          [name |-> "Cappuccino Tradicional", basePrice |-> 1190],
          [name |-> "Pão de Queijo", basePrice |-> 550],
          [name |-> "Croissant Recheado", basePrice |-> 990],
          [name |-> "Bolo Caseiro Fatia", basePrice |-> 1050],
          [name |-> "Café com Leite", basePrice |-> 890],
          [name |-> "Brownie", basePrice |-> 1290],
          [name |-> "Torta de Limão", basePrice |-> 1490],
          [name |-> "Cookie Chocolate", basePrice |-> 690],
          [name |-> "Chá Gelado 500ml", basePrice |-> 990] >>],
    [category |-> "Padaria",
     table |-> <<
          [name |-> "Pão Francês (kg)", basePrice |-> 1490],
          [name |-> "Pão de Forma Integral", basePrice |-> 950],
          [name |-> "Bolo de Chocolate", basePrice |-> 2890],
          [name |-> "Sonho Recheado", basePrice |-> 650],
          [name |-> "Empada de Frango", basePrice |-> 790],
          [name |-> "Pão de Queijo", basePrice |-> 490],
          [name |-> "Torta Salgada", basePrice |-> 3290],
          [name |-> "Biscoito Caseiro (kg)", basePrice |-> 2490],
          [name |-> "Croissant", basePrice |-> 890],
          [name |-> "Baguete", basePrice |-> 690] >>] >>

\* productsByCategory[place.type] || productsByCategory['Mercado']
productTable(type) ==
    IF \E k \in DOMAIN productsByCategory : productsByCategory[k].category = type
    THEN productsByCategory[CHOOSE k \in DOMAIN productsByCategory :
                               productsByCategory[k].category = type].table
    ELSE productsByCategory[1].table

\* the outcomes of the random source during one call: the draw for the count
\* (k / RandomSteps), the order the comparator-driven sort leaves the table
\* in (entry (a * i + b) mod 10 at position i, a permutation for a coprime to
\* 10), and the draws for the price variations (the draw for product j is
\* ((v + w * j) mod RandomSteps) / RandomSteps)
Randoms == [count : 0..(RandomSteps - 1),
            a : {1, 3, 7, 9}, b : {0, 4, 7},
            v : 0..(RandomSteps - 1), w : 0..(RandomSteps - 1)]

numProducts_fourSteps(rnd) == 3 + ((4 * rnd.count) \div RandomSteps)
\* 3 + Math.floor(Math.random() * 3)
numProducts(rnd) == 3 + ((3 * rnd.count) \div RandomSteps)

\* [...products].sort(() => Math.random() - 0.5)
shuffled(table, rnd) == [i \in 1..Len(table) |-> table[((rnd.a * i + rnd.b) % Len(table)) + 1]]

\* Math.round(basePrice * (0.85 + Math.random() * 0.4) * 100) / 100, in
\* centavos, for the draw step / RandomSteps: the integer nearest to
\* basePrice * (85 * RandomSteps + 40 * step) / (100 * RandomSteps), halves up
variedPrice(basePrice, step) ==
    (2 * basePrice * (85 * RandomSteps + 40 * step) + 100 * RandomSteps)
       \div (200 * RandomSteps)

generateRealisticProducts(p, rnd) ==
    LET selectedProducts == SubSeq(shuffled(productTable(p.type), rnd), 1, numProducts(rnd))
    IN [index \in DOMAIN selectedProducts |->
          [id |-> <<p.id, index - 1>>,
           name |-> selectedProducts[index].name,
           price |-> variedPrice(selectedProducts[index].basePrice,
                                 (rnd.v + rnd.w * index) % RandomSteps),
           store |-> p.name,
           distance |-> p.distance,
           category |-> p.type,
           isReal |-> FALSE]]

\* the type field of a place: the closed category set
PlaceTypes == <<"Mercado", "Farmácia", "Lanchonete", "Cafeteria", "Padaria", "Restaurante",
                "Loja", "Outros">>

\* place number j of a list
Place(j) == [id |-> j, name |-> <<"store", j>>, type |-> PlaceTypes[((j - 1) % 8) + 1],
             distance |-> j]

\* a bare call of generateRealisticProducts
GenerateRealisticProducts ==
    /\ genProducts = <<>>
    /\ genProducts' = generateRealisticProducts(genPlace, genRandom)
    /\ UNCHANGED <<genPlace, genRandom, authVars, quizVars, pureVars, finderVars, catVars,
                   geoVars, priceVars, moreVars>>

----------------------------------------------------------------------------
(* lib/ai-price-scraper and lib/places: the price functions                *)

MaxPlaces == 6          \* places in the list handed to a price function
NumRandomSeeds == 1     \* states of the random source at the start of a call
batchSize == 5

\* the random draws made for place j in a call that starts with the random
\* source in state seed
RandomFor(seed, j) ==
    [count |-> (seed + j) % RandomSteps,
     a |-> <<1, 3, 7, 9>>[((seed + j) % 4) + 1],
     b |-> <<0, 4, 7>>[((seed * j) % 3) + 1],
     v |-> seed % RandomSteps,
     w |-> j % RandomSteps]

Places(n) == [j \in 1..n |-> Place(j)]

\* the "prices" arrays of the JSON the model answers with; price in centavos;
\* a confidence outside the three named tiers stands for any other text
PriceLists ==
    { <<>>,
      << [productName |-> "B", price |-> 300, source |-> "Site", confidence |-> "low"] >>,
      << [productName |-> "A", price |-> 599, source |-> "Instagram", confidence |-> "high"],
         [productName |-> "B", price |-> 300, source |-> "Site", confidence |-> "low"],
         [productName |-> "C", price |-> 0, source |-> "Facebook", confidence |-> "medium"] >>,
      << [productName |-> "D", price |-> -100, source |-> "Site", confidence |-> "high"],
         [productName |-> "E", price |-> 250, source |-> "Site", confidence |-> "HIGH"],
         [productName |-> "F", price |-> 120, source |-> "Site", confidence |-> "medium"] >> }

\* what a chat completion request ends in: a transport or API error, a reply
\* without content, content that is not JSON, JSON without a prices array, or
\* JSON with one
AiOutcomes ==
    { [kind |-> "networkError"], [kind |-> "noContent"], [kind |-> "badJson"],
      [kind |-> "noPrices"] }
      \cup { [kind |-> "json", prices |-> list] : list \in PriceLists }
\* without an API key no request is made
NoKeyOutcomes == { [kind |-> "noKey"] }

confidentPrices_all(prices) == prices
\* prices.filter(price => price.confidence === 'high' || price.confidence === 'medium')
RECURSIVE confidentPrices(_)
confidentPrices(prices) ==
    IF Len(prices) = 0 THEN <<>>
    ELSE IF Head(prices).confidence = "high" \/ Head(prices).confidence = "medium"
         THEN <<Head(prices)>> \o confidentPrices(Tail(prices))
         ELSE confidentPrices(Tail(prices))

\* the value fetchRealPricesWithAI resolves with
fetchRealPricesWithAI(configured, outcome) ==
    IF ~configured THEN Null
    ELSE IF outcome.kind = "json"
         THEN [kind |-> "data", prices |-> confidentPrices(outcome.prices)]
         ELSE Null

\* the value searchSpecificProductPrices resolves with
searchSpecificProductPricesResult(configured, outcome) ==
    IF ~configured THEN <<>>
    ELSE IF outcome.kind = "json" THEN confidentPrices(outcome.prices)
    ELSE <<>>

\* the store the callback of batch.map returns for place p, given what its
\* lookup resolved with (or that it rejected) and the random draws for p
storeFor(p, realPrices, rnd) ==
    IF realPrices.kind = "data" /\ Len(realPrices.prices) > 0
    THEN [id |-> p.id, name |-> p.name, type |-> p.type, distance |-> p.distance,
          products |-> [index \in DOMAIN realPrices.prices |->
                          [id |-> <<p.id, index - 1>>,
                           name |-> realPrices.prices[index].productName,
                           price |-> realPrices.prices[index].price,
                           store |-> p.name,
                           distance |-> p.distance,
                           category |-> p.type,
                           source |-> realPrices.prices[index].source,
                           confidence |-> realPrices.prices[index].confidence,
                           isReal |-> TRUE]]]
    ELSE [id |-> p.id, name |-> p.name, type |-> p.type, distance |-> p.distance,
          products |-> generateRealisticProducts(p, rnd)]

batch_rest(places, i) == { j \in DOMAIN places : i < j }
\* places.slice(i, i + batchSize), as the set of positions of the list
batch(places, i) == { j \in DOMAIN places : i < j /\ j <= i + batchSize }

promiseAll_realOnly(i, results) ==
    LET kept == { j \in DOMAIN results : \E k \in DOMAIN results[j].products :
                                            results[j].products[k].isReal }
        nth(k) == CHOOSE j \in kept : Cardinality({ m \in kept : m <= j }) = k
    IN [k \in 1..Cardinality(kept) |-> results[nth(k)]]
\* await Promise.all(batchPromises): the stores in the order of the batch,
\* whatever the order the lookups settled in
promiseAll(i, results) ==
    [k \in 1..Cardinality(DOMAIN results) |-> results[i + k]]

EmptyMap == [j \in {} |-> Null]
SetAt(f, j, value) == [k \in DOMAIN f \cup {j} |-> IF k = j THEN value ELSE f[k]]

\* addRealProductsToPlaces up to its first await: the lookups of the first
\* batch are started
addRealProductsToPlaces(places, configured, seed) ==
    /\ priceCall.phase = "returned"
    /\ priceCall' =
         [op |-> "addRealProductsToPlaces",
          phase |-> IF Len(places) = 0 THEN "returned" ELSE "running",
          configured |-> configured, seed |-> seed, places |-> places,
          i |-> 0, inFlight |-> batch(places, 0),
          lookups |-> EmptyMap, batchResults |-> EmptyMap,
          storesWithProducts |-> <<>>]

\* the lookup of place j settles: the callback of batch.map runs to its
\* return; when it was the last of the batch, Promise.all resolves, the
\* stores are pushed and the next batch is started, or the call returns
settleLookup(j, outcome) ==
    /\ priceCall.op = "addRealProductsToPlaces"
    /\ priceCall.phase = "running"
    /\ j \in priceCall.inFlight
    /\ priceCall' =
         LET c == priceCall
             realPrices == fetchRealPricesWithAI(c.configured, outcome)
             results == SetAt(c.batchResults, j,
                              storeFor(c.places[j], realPrices, RandomFor(c.seed, j)))
             settled == [c EXCEPT !.inFlight = @ \ {j},
                                  !.lookups = SetAt(@, j, realPrices),
                                  !.batchResults = results]
         IN IF settled.inFlight # {} THEN settled
            ELSE LET next == [settled EXCEPT
                                !.storesWithProducts = @ \o promiseAll(c.i, results),
                                !.batchResults = EmptyMap,
                                !.i = @ + batchSize]
                 IN IF next.i < Len(c.places)
                    THEN [next EXCEPT !.inFlight = batch(c.places, next.i)]
                    ELSE [next EXCEPT !.phase = "returned"]

\* addMockProductsToPlaces
addMockProductsToPlaces(places, seed) ==
    /\ priceCall.phase = "returned"
    /\ priceCall' =
         [op |-> "addMockProductsToPlaces", phase |-> "returned", places |-> places,
          storesWithProducts |->
             [j \in DOMAIN places |->
                [id |-> places[j].id, name |-> places[j].name, type |-> places[j].type,
                 distance |-> places[j].distance,
                 products |-> generateRealisticProducts(places[j], RandomFor(seed, j))]]]

\* searchSpecificProductPrices up to its await; without a key it returns []
searchSpecificProductPrices(configured) ==
    /\ priceCall.phase = "returned"
    /\ priceCall' = [op |-> "searchSpecificProductPrices",
                     phase |-> IF configured THEN "running" ELSE "returned",
                     configured |-> configured,
                     prices |-> searchSpecificProductPricesResult(configured,
                                                                  [kind |-> "noKey"])]

\* searchSpecificProductPrices from the settled request to its return
finishSearchSpecificProductPrices(outcome) ==
    /\ priceCall.op = "searchSpecificProductPrices"
    /\ priceCall.phase = "running"
    /\ priceCall' = [priceCall EXCEPT
                        !.phase = "returned",
                        !.prices = searchSpecificProductPricesResult(TRUE, outcome)]

AddRealProductsToPlaces ==
    \E n \in 0..MaxPlaces, configured \in BOOLEAN, seed \in 1..NumRandomSeeds :
       addRealProductsToPlaces(Places(n), configured, seed)
         /\ UNCHANGED <<authVars, quizVars, pureVars, finderVars, catVars, genVars, geoVars,
                         moreVars>>
SettleLookup ==
    \E j \in 1..MaxPlaces :
       \E outcome \in IF priceCall.phase = "running" /\ ~priceCall.configured
                       THEN NoKeyOutcomes ELSE AiOutcomes :
          settleLookup(j, outcome)
            /\ UNCHANGED <<authVars, quizVars, pureVars, finderVars, catVars, genVars, geoVars,
                         moreVars>>
AddMockProductsToPlaces ==
    \E n \in 0..MaxPlaces, seed \in 1..NumRandomSeeds :
       addMockProductsToPlaces(Places(n), seed)
         /\ UNCHANGED <<authVars, quizVars, pureVars, finderVars, catVars, genVars, geoVars,
                         moreVars>>
SearchSpecificProductPrices ==
    \E configured \in BOOLEAN :
       searchSpecificProductPrices(configured)
         /\ UNCHANGED <<authVars, quizVars, pureVars, finderVars, catVars, genVars, geoVars,
                         moreVars>>
FinishSearchSpecificProductPrices ==
    \E outcome \in AiOutcomes :
       finishSearchSpecificProductPrices(outcome)
         /\ UNCHANGED <<authVars, quizVars, pureVars, finderVars, catVars, genVars, geoVars,
                         moreVars>>

----------------------------------------------------------------------------
(* The page component: handleSearch, handleUseCurrentLocation and            *)
(* handleQuizComplete as runs of async functions that share the page's state *)

MaxSearches == 2        \* runs of the two search handlers

\* the texts handleUseCurrentLocation writes into the location input ("pin"
\* stands for the round-pushpin emoji the second one starts with)
DetectingText ==
    <<"D", "e", "t", "e", "c", "t", "a", "n", "d", "o", " ", "s", "u", "a",
      " ", "l", "o", "c", "a", "l", "i", "z", "a", "ç", "ã", "o", ".", ".",
      ".">>
CurrentLocationText ==
    <<"pin", " ", "S", "u", "a", " ", "l", "o", "c", "a", "l", "i", "z", "a",
      "ç", "ã", "o", " ", "a", "t", "u", "a", "l">>
\* what the user types into the location input
TypedLocations == { DigitRun(8), <<"R", "i", "o">> }

NoOverride == undefined
QuizTypes == {"Mercado"}

LocationErrorText == "Não foi possível obter sua localização. Por favor, permita o acesso à localização nas configurações do navegador e tente novamente."

\* the useState hooks after the first render, in a build with or without a
\* Google Maps key; of searchResults the page keeps whether the list is empty
\* and which run set it
PageLoaded(googleMapsConfigured) ==
    [location |-> <<>>, isSearching |-> FALSE, error |-> "", showQuiz |-> FALSE,
     selectedCategory |-> "all", searchResults |-> [run |-> 0, empty |-> TRUE],
     runs |-> {}, started |-> 0,
     googleMapsConfigured |-> googleMapsConfigured]

RunIds(p) == { run.id : run \in p.runs }
InFlight(r) == r \in RunIds(page)

\* what an awaited collaborator hands back to the handler: the geocoders
\* coordinates or null, the place finders and the price lookup a list,
\* getCurrentLocation a position or a rejection.  A rejection is enumerated for
\* every await, so that the handlers' catch blocks are exercised.
Rejects == [kind |-> "rejects", empty |-> TRUE]
AwaitOutcomes(awaiting) ==
    CASE awaiting \in {"getAddressFromCEP", "getCoordinatesFromCity", "getCurrentLocation"} ->
            { [kind |-> "found", empty |-> FALSE], [kind |-> "null", empty |-> TRUE],
              Rejects }
      [] awaiting \in {"searchPlacesWithGoogle", "searchNearbyPlaces"} ->
            { [kind |-> "list", empty |-> e] : e \in BOOLEAN } \cup { Rejects }
      [] OTHER -> { [kind |-> "list", empty |-> TRUE], Rejects }

\* handleLocationChange(value), without the debounced autocomplete
handleLocationChange(value) ==
    page' = [page EXCEPT !.location = value, !.error = ""]

\* the quiz button: setShowQuiz(true)
openQuiz == page' = [page EXCEPT !.showQuiz = TRUE]

\* handleSearch(categoryOverride) up to its first await, on the page state p
handleSearchOn(p, categoryOverride) ==
    LET searchCategory == IF categoryOverride # NoOverride THEN categoryOverride
                          ELSE p.selectedCategory
        id == p.started + 1
    IN IF Trim(p.location) = <<>>
       THEN [p EXCEPT !.error = "Digite um CEP ou cidade"]
       ELSE [p EXCEPT !.isSearching = TRUE, !.error = "", !.showQuiz = FALSE,
                      !.started = id,
                      !.runs = @ \cup
                         { [id |-> id, handler |-> "handleSearch",
                            awaiting |-> IF IsCEP(Trim(p.location))
                                         THEN "getAddressFromCEP"
                                         ELSE "getCoordinatesFromCity",
                            searchCategory |-> searchCategory, empty |-> TRUE] }]
handleSearchRun(categoryOverride) == page' = handleSearchOn(page, categoryOverride)

\* handleUseCurrentLocation up to its first await
handleUseCurrentLocation ==
    LET id == page.started + 1
    IN page' = [page EXCEPT !.isSearching = TRUE, !.error = "",
                            !.location = DetectingText, !.started = id,
                            !.runs = @ \cup
                               { [id |-> id, handler |-> "handleUseCurrentLocation",
                                  awaiting |-> "getCurrentLocation",
                                  searchCategory |-> "all", empty |-> TRUE] }]

\* handleQuizComplete(result)
handleQuizComplete(type) ==
    LET selected == [page EXCEPT !.selectedCategory = type]
    IN page' = IF Trim(page.location) # <<>> THEN handleSearchOn(selected, type)
               ELSE selected

\* the run goes on to its next await
awaitNext(p, run, awaiting, empty) ==
    [p EXCEPT !.runs = (@ \ {run}) \cup
                          { [run EXCEPT !.awaiting = awaiting, !.empty = empty] }]
finally_skipped(p, run) == [p EXCEPT !.runs = @ \ {run}]
\* the finally block, and the setIsSearching(false) before an early return
finally(p, run) == [p EXCEPT !.isSearching = FALSE, !.runs = @ \ {run}]

\* the continuation of handleSearch after the await of run.awaiting
resumeHandleSearch(p, run, outcome) ==
    IF outcome.kind = "rejects"
    THEN finally([p EXCEPT !.error = "Erro ao buscar estabelecimentos. Tente novamente."],
                 run)
    ELSE CASE run.awaiting = "getAddressFromCEP" /\ outcome.kind = "null" ->
                 finally([p EXCEPT !.error = "CEP não encontrado. Tente novamente."], run)
           [] run.awaiting = "getCoordinatesFromCity" /\ outcome.kind = "null" ->
                 finally([p EXCEPT !.error = "Cidade não encontrada. Tente novamente."],
                         run)
           [] run.awaiting \in {"getAddressFromCEP", "getCoordinatesFromCity"}
                /\ outcome.kind = "found" ->
                 awaitNext(p, run,
                           IF p.googleMapsConfigured /\ run.searchCategory # "all"
                           THEN "searchPlacesWithGoogle" ELSE "searchNearbyPlaces",
                           TRUE)
           [] run.awaiting = "searchPlacesWithGoogle" ->
                 IF outcome.empty THEN awaitNext(p, run, "searchNearbyPlaces", TRUE)
                 ELSE awaitNext(p, run, "addRealProductsToPlaces", FALSE)
           [] run.awaiting = "searchNearbyPlaces" ->
                 awaitNext(p, run, "addRealProductsToPlaces", outcome.empty)
           [] OTHER ->
                 finally([p EXCEPT !.searchResults = [run |-> run.id, empty |-> run.empty],
                                   !.error = IF run.empty
                                             THEN "Nenhum estabelecimento encontrado nesta região."
                                             ELSE @],
                         run)

\* the continuation of handleUseCurrentLocation
resumeHandleUseCurrentLocation(p, run, outcome) ==
    IF outcome.kind = "rejects"
    THEN finally([p EXCEPT !.error = LocationErrorText, !.location = <<>>], run)
    ELSE CASE run.awaiting = "getCurrentLocation" /\ outcome.kind = "null" ->
                 finally([p EXCEPT !.error = LocationErrorText, !.location = <<>>], run)
           [] run.awaiting = "getCurrentLocation" ->
                 awaitNext([p EXCEPT !.location = CurrentLocationText],
                           run, "searchNearbyPlaces", TRUE)
           [] run.awaiting = "searchNearbyPlaces" ->
                 awaitNext(p, run, "addRealProductsToPlaces", outcome.empty)
           [] OTHER ->
                 finally([p EXCEPT !.searchResults = [run |-> run.id, empty |-> run.empty],
                                   !.error = IF run.empty
                                             THEN "Nenhum estabelecimento encontrado próximo a você."
                                             ELSE @],
                         run)

\* the collaborator a run awaits settles and the run's handler goes on
settleRun(run, outcome) ==
    page' = IF run.handler = "handleSearch" THEN resumeHandleSearch(page, run, outcome)
            ELSE resumeHandleUseCurrentLocation(page, run, outcome)

\* the location input, rendered while the quiz is not shown
TypeLocation == \E value \in TypedLocations :
    /\ ~page.showQuiz
    /\ handleLocationChange(value)
    /\ UNCHANGED otherThanPage
\* the quiz button, rendered while there is neither a quiz nor a result
OpenQuiz ==
    /\ ~page.showQuiz
    /\ page.searchResults.empty
    /\ openQuiz
    /\ UNCHANGED otherThanPage
\* the search button: disabled={isSearching}
ClickSearch ==
    /\ ~page.showQuiz
    /\ ~page.isSearching
    /\ page.started < MaxSearches
    /\ handleSearchRun(NoOverride)
    /\ UNCHANGED otherThanPage
\* the input's onKeyDown: e.key === "Enter" && handleSearch()
PressEnter ==
    /\ ~page.showQuiz
    /\ page.started < MaxSearches
    /\ handleSearchRun(NoOverride)
    /\ UNCHANGED otherThanPage
\* the current-location button: disabled={isSearching}
ClickUseCurrentLocation ==
    /\ ~page.showQuiz
    /\ ~page.isSearching
    /\ page.started < MaxSearches
    /\ handleUseCurrentLocation
    /\ UNCHANGED otherThanPage
\* the quiz, while it is shown, calls its onComplete prop
HandleQuizComplete == \E type \in QuizTypes :
    /\ page.showQuiz
    /\ page.started < MaxSearches
    /\ handleQuizComplete(type)
    /\ UNCHANGED otherThanPage
SettleRun(r) == \E run \in page.runs :
    /\ run.id = r
    /\ \E outcome \in AwaitOutcomes(run.awaiting) : settleRun(run, outcome)
    /\ UNCHANGED otherThanPage
Settle == \E r \in 1..MaxSearches : SettleRun(r)

----------------------------------------------------------------------------
(* Specifications                                                          *)

AuthInit == /\ localStorage = [k \in {} |-> <<>>]
            /\ authCall = [op |-> "none"]
QuizInit == /\ currentQuestion = 0
            /\ answers = <<>>
            /\ isComplete = FALSE
            /\ result = NullResult
            /\ isGeneratingImage = FALSE
            /\ quizResults = [t \in ResultTypes |-> NoImage]
            /\ handlers = {}
            /\ completed = [run |-> 0]
            /\ quizRuns = 0
PropsFixed == hasImageCallback = TRUE /\ imageConfigured = TRUE
PureIdle == userAnswers = <<>> /\ determined = "idle"
FinderIdle == finder = [phase |-> "idle"] /\ google = [phase |-> "idle"]
LocatorIdle == [phase |-> "idle", calls |-> 0]
MoreIdle == /\ distCall = [phase |-> "idle"]
            /\ locator = LocatorIdle
            /\ cities = CitiesIdle
            /\ page = PageLoaded(FALSE)
LibIdle == /\ tags = [shop |-> undefined, amenity |-> undefined]
           /\ category = "idle"
           /\ genPlace = [id |-> 0]
           /\ genRandom = [idle |-> TRUE]
           /\ genProducts = <<>>
           /\ geo = GeoIdle
           /\ priceCall = [op |-> "none", phase |-> "returned"]
           /\ MoreIdle

\* the state after page load: empty storage, the quiz at its first question
\* with the page's props, no call made yet
Init == AuthInit /\ QuizInit /\ PropsFixed /\ PureIdle /\ FinderIdle /\ LibIdle

\* lib/auth alone: any sequence of register, login and logout from empty storage
NextAuth == Register \/ Login \/ Logout
SpecAuth == Init /\ [][NextAuth]_vars

\* the quiz component, mounted with or without onGenerateImage, with or without a key
NextQuiz == HandleAnswer \/ ResumeHandleAnswer \/ ResetQuiz \/ GoBack \/ SearchResult
InitQuiz == /\ AuthInit /\ QuizInit /\ PureIdle /\ FinderIdle /\ LibIdle
            /\ hasImageCallback \in BOOLEAN
            /\ imageConfigured \in BOOLEAN
SpecQuiz == InitQuiz /\ [][NextQuiz]_vars
ResumeRun(r) == \E h \in handlers, outcome \in FetchOutcomes :
                  /\ h.run = r
                  /\ resumeHandleAnswer(h, outcome)
                  /\ UNCHANGED <<authVars, pureVars, finderVars, libVars>>
\* the same component explored to MaxFairRuns completions, for the
\* eventualities: a pending image request settles (the client library times
\* out), and the continuation of the awaiting handler then runs
NextFairQuiz == NextQuiz /\ quizRuns' <= MaxFairRuns
FairSpecQuiz == InitQuiz /\ [][NextFairQuiz]_vars
                /\ \A r \in 1..MaxFairRuns : WF_vars(ResumeRun(r))

\* the place finder: calls of searchNearbyPlaces, one at a time
NextFinder == \/ SearchNearbyPlaces \/ FinishSearchNearbyPlaces
              \/ SearchPlacesWithGoogle \/ FinishSearchPlacesWithGoogle
              \/ GetPlaceDetails \/ FinishGetPlaceDetails
SpecFinder == Init /\ [][NextFinder]_vars

\* the geocoder: handleSearch up to the coordinates it searches from, and calls
\* of getAddressFromCEP on any text, one call at a time
NextGeo == HandleSearch \/ CallGetAddressFromCEP \/ SettleViaCep \/ SettleNominatim
SpecGeo == Init /\ [][NextGeo]_vars

\* the price functions, one call at a time, the lookups of a batch settling
\* in any order
NextPrices == \/ AddRealProductsToPlaces \/ SettleLookup \/ AddMockProductsToPlaces
              \/ SearchSpecificProductPrices \/ FinishSearchSpecificProductPrices
SpecPrices == Init /\ [][NextPrices]_vars

\* generateRealisticProducts as a function of the place and of the outcomes of
\* the random source
InitProducts == /\ AuthInit /\ QuizInit /\ PropsFixed /\ PureIdle /\ FinderIdle
                /\ tags = [shop |-> undefined, amenity |-> undefined]
                /\ category = "idle"
                /\ genPlace \in { Place(j) : j \in 1..8 }
                /\ genRandom \in Randoms
                /\ genProducts = <<>>
                /\ geo = GeoIdle
                /\ priceCall = [op |-> "none", phase |-> "returned"]
                /\ MoreIdle
SpecProducts == InitProducts /\ [][GenerateRealisticProducts]_vars

\* getCategoryFromTags as a pure function of the (shop, amenity) pair
InitCategory == /\ AuthInit /\ QuizInit /\ PropsFixed /\ PureIdle /\ FinderIdle
                /\ tags \in [shop : TagValues, amenity : TagValues]
                /\ category = "pending"
                /\ genPlace = [id |-> 0]
                /\ genRandom = [idle |-> TRUE]
                /\ genProducts = <<>>
                /\ geo = GeoIdle
                /\ priceCall = [op |-> "none", phase |-> "returned"]
                /\ MoreIdle
SpecCategory == InitCategory /\ [][GetCategoryFromTags]_vars

\* getCurrentLocation, one call at a time; the timer of a call fires unless a
\* callback has cleared it
NextLocation == GetCurrentLocation \/ SettlePermission \/ OnPosition \/ OnPositionError
                  \/ OnTimer
SpecLocation == Init /\ [][NextLocation]_vars /\ WF_vars(OnTimer)

\* the city autocomplete: calls of searchCitiesWithCache, which may overlap
\* (the page starts one 300 ms after each keystroke)
NextCities == SearchCitiesWithCache \/ SettleCitiesFetch
SpecCities == Init /\ [][NextCities]_vars

\* the page in a build with or without a Google Maps key: the user types,
\* opens the quiz, presses the buttons and the Enter key, the quiz completes,
\* and every collaborator a run awaits settles (the network calls fail or
\* answer, getCurrentLocation has its own timer)
NextPage == \/ TypeLocation \/ OpenQuiz \/ ClickSearch \/ PressEnter
            \/ ClickUseCurrentLocation \/ HandleQuizComplete \/ Settle
InitPage == /\ AuthInit /\ QuizInit /\ PropsFixed /\ PureIdle /\ FinderIdle
            /\ tags = [shop |-> undefined, amenity |-> undefined]
            /\ category = "idle"
            /\ genPlace = [id |-> 0]
            /\ genRandom = [idle |-> TRUE]
            /\ genProducts = <<>>
            /\ geo = GeoIdle
            /\ priceCall = [op |-> "none", phase |-> "returned"]
            /\ distCall = [phase |-> "idle"]
            /\ locator = LocatorIdle
            /\ cities = CitiesIdle
            /\ page \in { PageLoaded(key) : key \in BOOLEAN }
SpecPage == InitPage /\ [][NextPage]_vars
              /\ \A r \in 1..MaxSearches : WF_vars(SettleRun(r))

\* calculateDistance as a function of two points of the globe and of the
\* rounding of the floating-point sum
InitDistance == /\ AuthInit /\ QuizInit /\ PropsFixed /\ PureIdle /\ FinderIdle
                /\ tags = [shop |-> undefined, amenity |-> undefined]
                /\ category = "idle"
                /\ genPlace = [id |-> 0]
                /\ genRandom = [idle |-> TRUE]
                /\ genProducts = <<>>
                /\ geo = GeoIdle
                /\ priceCall = [op |-> "none", phase |-> "returned"]
                /\ distCall \in { [phase |-> "pending", coord1 |-> a, coord2 |-> b] :
                                     a \in GlobePoints, b \in GlobePoints }
                /\ locator = LocatorIdle
                /\ cities = CitiesIdle
                /\ page = PageLoaded(FALSE)
SpecDistance == InitDistance /\ [][CalculateDistance]_vars

\* determineResult as a pure function of the answer tuple
InitDetermine == /\ AuthInit /\ QuizInit /\ PropsFixed /\ FinderIdle /\ LibIdle
                 /\ userAnswers \in AnswerTuples
                 /\ determined = "pending"
SpecDetermine == InitDetermine /\ [][Determine]_vars

----------------------------------------------------------------------------
(* Properties of lib/auth (checked under SpecAuth)                         *)

DuplicateEmail == [success |-> FALSE, error |-> "Email já cadastrado"]
FailedLogin == [success |-> FALSE, error |-> "Email ou senha incorretos"]

NoDuplicateEmails(users) ==
    \A i, j \in DOMAIN users : i # j => users[i].email # users[j].email

\* the step is a call of register whose email is already in the stored list
RegisterOfStoredEmail ==
    /\ authCall'.op = "register"
    /\ \E i \in DOMAIN getStoredUsers : getStoredUsers[i].email = authCall'.email

\* C2 as stated: the stored user list never holds two records with the same
\* email, and every register call with an email already in the list returns
\* the duplicate-email error
C2_AsStated ==
    [][ /\ NoDuplicateEmails(getStoredUsers')
        /\ RegisterOfStoredEmail => authCall'.result = DuplicateEmail ]_vars

\* C2 (amended): the stored user list never holds two records with the same
\* email; a register call with an email already in the list fails and leaves the
\* list as it is, and its error is the duplicate-email error whenever the name is
\* non-empty and the password has at least 6 characters (the earlier validations
\* report their own error first)
C2_UniqueEmails ==
    [][ /\ NoDuplicateEmails(getStoredUsers')
        /\ RegisterOfStoredEmail =>
             /\ authCall'.result.success = FALSE
             /\ getStoredUsers' = getStoredUsers
             /\ (Len(authCall'.name) > 0 /\ Len(authCall'.password) >= 6
                   => authCall'.result = DuplicateEmail) ]_vars

\* a duplicate registration was refused while the list holds two users
C2_Witness ==
    /\ authCall.op = "register"
    /\ authCall.result = DuplicateEmail
    /\ Len(getStoredUsers) = 2

\* C3: register fails whenever a field is empty, the email has no "@", the
\* password has fewer than 6 characters or the email is already stored, and a
\* failed register leaves the user list and the session record unchanged
C3_RegisterRejects ==
    [][ authCall'.op = "register" =>
          /\ ( \/ Len(authCall'.email) = 0
               \/ Len(authCall'.password) = 0
               \/ Len(authCall'.name) = 0
               \/ \A k \in DOMAIN authCall'.email : authCall'.email[k] # "@"
               \/ Len(authCall'.password) < 6
               \/ \E i \in DOMAIN getStoredUsers :
                     getStoredUsers[i].email = authCall'.email )
             => authCall'.result.success = FALSE
          /\ authCall'.result.success = FALSE
             => /\ localStorage' = localStorage
                /\ getStoredUsers' = getStoredUsers
                /\ getAuthState' = getAuthState ]_vars

\* a registration was refused while a session and a stored user exist
C3_Witness ==
    /\ authCall.op = "register"
    /\ authCall.result.success = FALSE
    /\ Len(authCall.password) = 5
    /\ getAuthState.isAuthenticated
    /\ Len(getStoredUsers) > 0

\* C4: a login with non-empty email and password returns one and the same
\* failure (no user field) and changes nothing in storage, both when the email
\* is not registered and when it is registered with another password
C4_LoginDoesNotReveal ==
    [][ /\ authCall'.op = "login"
        /\ Len(authCall'.email) > 0
        /\ Len(authCall'.password) > 0
        /\ \/ \A i \in DOMAIN getStoredUsers : getStoredUsers[i].email # authCall'.email
           \/ /\ \E i \in DOMAIN getStoredUsers : getStoredUsers[i].email = authCall'.email
              /\ \A i \in DOMAIN getStoredUsers :
                    getStoredUsers[i].email = authCall'.email
                       => getStoredUsers[i].password # authCall'.password
        => /\ authCall'.result = FailedLogin
           /\ "user" \notin DOMAIN authCall'.result
           /\ localStorage' = localStorage ]_vars

\* a login with a registered email and a wrong password has failed
C4_Witness ==
    /\ authCall.op = "login"
    /\ authCall.result = FailedLogin
    /\ \E i \in DOMAIN getStoredUsers :
          /\ getStoredUsers[i].email = authCall.email
          /\ getStoredUsers[i].password # authCall.password

C6_LogoutClearsSession ==
    [][ /\ authCall'.op = "logout" =>
             /\ getAuthState' = Unauthenticated
             /\ getStoredUsers' = getStoredUsers
             /\ \A i \in DOMAIN getStoredUsers :
                   (loginResult(getStoredUsers[i].email, getStoredUsers[i].password))'
                      = [success |-> TRUE,
                         user |-> [email |-> getStoredUsers[i].email,
                                   name |-> getStoredUsers[i].name]]
        /\ (getAuthState = Unauthenticated
              /\ ~(authCall'.op = "login" /\ authCall'.result.success))
             => getAuthState' = Unauthenticated ]_vars

\* a logout happened with users stored, and the session is gone
C6_Witness ==
    /\ authCall.op = "logout"
    /\ Len(getStoredUsers) = 2
    /\ getAuthState = Unauthenticated

\* C25: a successful register appends exactly one record {email, password,
\* name} to the stored user list, keeps every earlier record and leaves the
\* session record as it was (absent stays absent): registering does not log in
C25_RegisterAppends ==
    [][ authCall'.op = "register" /\ authCall'.result.success =>
          /\ getStoredUsers' = Append(getStoredUsers,
                                      [email |-> authCall'.email,
                                       password |-> authCall'.password,
                                       name |-> authCall'.name])
          /\ (STORAGE_KEY \in DOMAIN localStorage') = (STORAGE_KEY \in DOMAIN localStorage)
          /\ getAuthState' = getAuthState ]_vars

\* a second user registered while the first one was logged in, and another
\* registration succeeded with nobody logged in
C25_Witness ==
    /\ authCall.op = "register"
    /\ authCall.result.success
    /\ Len(getStoredUsers) = 2
    /\ getAuthState.isAuthenticated
    /\ getAuthState.user.email = getStoredUsers[1].email
    /\ getStoredUsers[2].email = authCall.email

----------------------------------------------------------------------------
(* Properties of determineResult (checked under SpecDetermine)             *)

Has(t, token) == \E i \in DOMAIN t : t[i] = token

\* C7: [food, variety, large] gives Mercado, [health, specialized,
\* professional] gives Farmácia, and every answer tuple holding both meal and
\* cozy gives Cafeteria, with quick as second answer too
C7_QuizMapping ==
    determined # "pending" =>
      /\ userAnswers = <<food, variety, large>> => determined = "Mercado"
      /\ userAnswers = <<health, specialized, professional>> => determined = "Farmácia"
      /\ Has(userAnswers, meal) /\ Has(userAnswers, cozy) => determined = "Cafeteria"

\* [meal, quick, cozy] was mapped to Cafeteria
C7_Witness == userAnswers = <<meal, quick, cozy>> /\ determined = "Cafeteria"

\* the rule table of the claim, by tokens of the tuple, first match first
FirstMatch(t) ==
    CASE Has(t, food) /\ (Has(t, variety) \/ Has(t, price)) -> "Mercado"
      [] Has(t, health) -> "Farmácia"
      [] Has(t, meal) /\ Has(t, cozy) -> "Cafeteria"
      [] Has(t, meal) /\ Has(t, quick) -> "Lanchonete"
      [] Has(t, food) /\ Has(t, quick) -> "Padaria"
      [] Has(t, meal) -> "Restaurante"
      [] OTHER -> "Mercado"

\* C8: on every tuple of one option per question determineResult returns a
\* result, that of the first matching rule in the order Mercado, Farmácia,
\* Cafeteria, Lanchonete, Padaria, Restaurante, and Mercado when none matches
\* (so for every tuple that starts with general)
C8_FirstMatch ==
    determined # "pending" =>
      /\ determined \in ResultTypes
      /\ determined = FirstMatch(userAnswers)
      /\ userAnswers[1] = general => determined = "Mercado"

\* a tuple no rule matches was mapped to the default
C8_Witness == userAnswers = <<general, quick, cozy>> /\ determined = "Mercado"

----------------------------------------------------------------------------
(* Properties of the quiz component (SpecQuiz, FairSpecQuiz)               *)

\* the step is handleAnswer on the last question
ThirdAnswer == quizRuns' = quizRuns + 1

\* handleAnswer of completion r is suspended at its await
Pending(r) == \E h \in handlers : h.run = r

\* C9: the third answer puts the quiz in its completed state with the
\* determined result; onComplete is invoked with that result at once when there
\* is no image request to wait for, and eventually, whatever the outcome of the
\* request, when there is one
C9_CompletionNotBlocked ==
    /\ [][ ThirdAnswer =>
             /\ isComplete' /\ result' = Ref(determineResult(answers'))
             /\ IF hasImageCallback /\ imageConfigured
                THEN handlers' = handlers \cup {[run |-> quizRuns', type |-> result'.type]}
                ELSE /\ completed'.run = quizRuns'
                     /\ completed'.type = result'.type
                     /\ completed'.via = "handler" ]_vars
    /\ [][ \A h \in handlers \ handlers' :
             /\ completed'.run = h.run
             /\ completed'.type = h.type
             /\ completed'.via = "handler" ]_vars
    /\ \A r \in 1..MaxFairRuns :
          Pending(r) ~> (~Pending(r) /\ completed.run = r /\ completed.via = "handler")

\* onComplete was invoked by a handler whose image request had thrown
C9_Witness ==
    /\ completed.run > 0
    /\ completed.via = "handler"
    /\ completed.fetched = "throws"
    /\ isComplete

\* C10: when the image request of a completion yields no URL, the result
\* passed to onComplete, and the result shown for that completion, has no
\* imageUrl
C10_NoImageWithoutUrl ==
    ( /\ completed.run > 0
      /\ completed.via = "handler"
      /\ completed.fetched \in {"empty", "throws", "unconfigured"} )
    => /\ completed.imageUrl = NoImage
       /\ (completed.run = quizRuns /\ ~QuestionView /\ result.type = completed.type)
             => ShownImage = NoImage

\* the step records an answer on the last question
AnswerAtLastQuestion ==
    /\ currentQuestion = 2
    /\ \E value \in QuizOptions(3) : answers' = Append(answers, value)

\* C26: currentQuestion stays in 0..2 and, while the quiz is not complete, the
\* number of recorded answers equals currentQuestion; the quiz becomes complete
\* exactly in the step that records an answer at question index 2, and then its
\* result is computed from exactly 3 answers
C26_QuizProgress ==
    [][ /\ currentQuestion' \in 0..2
        /\ ~isComplete' => Len(answers') = currentQuestion'
        /\ (~isComplete /\ isComplete') <=> AnswerAtLastQuestion
        /\ (~isComplete /\ isComplete') =>
              /\ Len(answers') = 3
              /\ result' = Ref(determineResult(answers')) ]_vars

\* the quiz was completed and reset, and is at its third question again with
\* two answers given
C26_Witness ==
    /\ quizRuns = 1
    /\ ~isComplete
    /\ Len(answers) = 2
    /\ currentQuestion = 2

\* C27: onComplete is invoked by a resumed handleAnswer, and the result state
\* is set by it, only while the quiz is in the completed state of that
\* handler's run: never after resetQuiz
C27_NoCompletionAfterReset ==
    [][ \A h \in handlers \ handlers' :
          (completed' # completed \/ result' # result) =>
             /\ isComplete
             /\ result.kind # "null"
             /\ h.run = quizRuns ]_vars

----------------------------------------------------------------------------
(* Properties of searchNearbyPlaces (checked under SpecFinder)             *)

SortedByDistance(places) ==
    \A i \in 1..(Len(places) - 1) : places[i].distance <= places[i + 1].distance

\* C1: the list returned by searchNearbyPlaces has at most 20 entries and is
\* sorted by non-decreasing distance, whether the Overpass request succeeded
\* or the mock fallback was taken
C1_CappedAndSorted ==
    finder.phase = "returned" =>
      /\ Len(finder.places) <= 20
      /\ SortedByDistance(finder.places)

\* the same for the lists built from an Overpass response alone
OverpassListCappedAndSorted ==
    finder.phase = "returned" /\ finder.outcome = "ok" =>
      /\ Len(finder.places) <= 20
      /\ SortedByDistance(finder.places)

----------------------------------------------------------------------------
(* Properties of getCategoryFromTags (checked under SpecCategory)          *)

\* the entries of CATEGORY_TAGS that list the shop or the amenity value
Hits(t) == { k \in 1..6 : \E i \in DOMAIN CATEGORY_TAGS[k].tagList :
                             CATEGORY_TAGS[k].tagList[i] \in {t.shop, t.amenity} }

\* C11: getCategoryFromTags returns the category of the first entry of
\* CATEGORY_TAGS, in declaration order, whose tag list holds the shop or the
\* amenity value, and Outros when no list holds either
C11_FirstCategory ==
    category # "pending" =>
      /\ Hits(tags) = {} => category = "Outros"
      /\ \A k \in Hits(tags) :
            (\A j \in Hits(tags) : k <= j) => category = CATEGORY_TAGS[k].category

\* a shop listed under Lanchonete with an amenity listed under Mercado was
\* mapped to Mercado, the earlier entry
C11_Witness ==
    /\ tags = [shop |-> "fast_food", amenity |-> "grocery"]
    /\ category = "Mercado"

----------------------------------------------------------------------------
(* Properties of the finder paths (checked under SpecFinder)               *)

Categories == { "Mercado", "Farmácia", "Lanchonete", "Cafeteria", "Padaria",
                "Restaurante", "Loja", "Outros" }

\* C12: every place returned by searchNearbyPlaces, from an Overpass response
\* or from the mock fallback, and every place returned by
\* searchPlacesWithGoogle has its type (and its category, where it has one) in
\* the closed category set
C12_ClosedCategories ==
    /\ finder.phase = "returned" =>
          \A i \in DOMAIN finder.places :
             /\ finder.places[i].type \in Categories
             /\ finder.places[i].category \in Categories
    /\ google.phase = "returned" /\ google.op = "search" =>
          \A i \in DOMAIN google.places : google.places[i].type \in Categories
    /\ google.phase = "returned" /\ google.op = "details" /\ google.result # NoPlace =>
          google.result.type \in Categories

\* Google returned a place of a type the map does not list, and Overpass a
\* place whose tags no list holds
C12_Witness ==
    /\ google.phase = "returned" /\ google.op = "search"
    /\ \E i \in DOMAIN google.places : google.places[i].type = "Loja"
    /\ finder.phase = "returned" /\ finder.outcome = "ok"
    /\ \E i \in DOMAIN finder.places : finder.places[i].category = "Outros"

\* C15: a searchNearbyPlaces call whose Overpass request fails returns (it
\* does not reject) after that one request, and returns the 8 mock
\* establishments with the names, categories and distances of the table
C15_MockFallback ==
    /\ [][ finder.phase = "requested" /\ finder' # finder =>
             /\ finder'.phase = "returned"
             /\ finder'.requests = 1 ]_vars
    /\ [][ finder'.phase = "returned" /\ finder'.outcome # "ok" =>
             /\ Len(finder'.places) = 8
             /\ \A i \in 1..8 :
                   /\ finder'.places[i].name = mockData[i].name
                   /\ finder'.places[i].type = mockData[i].type
                   /\ finder'.places[i].category = mockData[i].type
                   /\ finder'.places[i].distance = mockData[i].baseDistance ]_vars

\* a call whose response body could not be read returned the mock list, the
\* first entry being Supermercado Economia at 0.5 km
C15_Witness ==
    /\ finder.phase = "returned"
    /\ finder.outcome = "badBody"
    /\ finder.requests = 1
    /\ finder.places[1].name = "Supermercado Economia"
    /\ finder.places[1].distance = 5

\* C23: without a Google API key searchPlacesWithGoogle and getPlaceDetails
\* return at once, the empty list and null, having issued no network request;
\* with a key they issue one request, and in neither case does a call reject
C23_NoKeyNoRequest ==
    google.phase # "idle" =>
      /\ google.phase \in {"requested", "returned"}
      /\ ~google.apiKey =>
            /\ google.phase = "returned"
            /\ google.requests = 0
            /\ google.op = "search" => google.places = <<>>
            /\ google.op = "details" => google.result = NoPlace
      /\ google.apiKey => google.requests = 1

\* getPlaceDetails returned null without a key
C23_Witness ==
    /\ google.phase = "returned"
    /\ google.op = "details"
    /\ ~google.apiKey
    /\ google.requests = 0
    /\ google.result = NoPlace

\* C30: for every category the Google search can be asked for,
\* mapGoogleTypeToOurType(mapToGooglePlaceType(C)) = C
C30_TypeRoundTrip ==
    google.phase = "requested" /\ google.op = "search" /\ google.type # "all" =>
      mapGoogleTypeToOurType(google.googleType) = google.type

\* the round trip holds for every category except Lanchonete, which comes back
\* as Restaurante
RoundTripExceptLanchonete ==
    google.phase = "requested" /\ google.op = "search" /\ google.type # "all" =>
      mapGoogleTypeToOurType(google.googleType) =
         IF google.type = "Lanchonete" THEN "Restaurante" ELSE google.type

----------------------------------------------------------------------------
(* Properties of the geocoder (checked under SpecGeo)                      *)

DigitPositions(s) ==
    { i \in DOMAIN s : s[i] \in {"0", "1", "2", "3", "4", "5", "6", "7", "8", "9"} }
ViaCepRequests == { i \in DOMAIN geo.requests : geo.requests[i].service = "viacep" }

NominatimFailed == geo.nominatim \in {"networkError", "notOk", "badBody", "empty"}
ViaCepFailed == geo.viacep \in {"networkError", "notOk", "badBody", "erro"}

\* C14 as stated: no lookup rejects, a failed lookup yields null, and a
\* handleSearch in which a lookup failed goes on to search from the fallback
\* coordinate, on the postal-code path and on the city path
C14_AsStated ==
    /\ geo.coordLookup.kind # "rejected" /\ geo.addressInfo.kind # "rejected"
    /\ NominatimFailed => geo.coordLookup = Null
    /\ ViaCepFailed => geo.addressInfo = Null
    /\ (geo.entry = "handleSearch" /\ geo.path \in {"cep", "city"}
           /\ (geo.addressInfo = Null \/ geo.coordLookup = Null))
         => geo.phase = "searching" /\ geo.coordinates = [lat |-> -235505, lng |-> -466333]

\* C14 (amended): no lookup rejects and a failed lookup yields null; the
\* fallback coordinate (-23.5505, -46.6333) is substituted by getAddressFromCEP
\* when the postal code was resolved and the address search failed, and
\* handleSearch then searches from it; when getAddressFromCEP yields null, or
\* the city lookup yields null, handleSearch shows its not-found message and
\* stops with isSearching false
C14_FallbackOrMessage ==
    /\ geo.coordLookup.kind # "rejected" /\ geo.addressInfo.kind # "rejected"
    /\ NominatimFailed => geo.coordLookup = Null
    /\ ViaCepFailed => geo.addressInfo = Null
    /\ (geo.path = "cep" /\ geo.viacep = "ok" /\ geo.coordLookup = Null) =>
          /\ geo.addressInfo.kind = "addressInfo"
          /\ geo.addressInfo.coordinates = [lat |-> -235505, lng |-> -466333]
          /\ geo.entry = "handleSearch" =>
                /\ geo.phase = "searching"
                /\ geo.coordinates = [lat |-> -235505, lng |-> -466333]
    /\ (geo.entry = "handleSearch" /\ geo.addressInfo = Null) =>
          /\ geo.phase = "error"
          /\ geo.error = "CEP não encontrado. Tente novamente."
          /\ geo.coordinates = [kind |-> "none"]
          /\ ~geo.isSearching
    /\ (geo.entry = "handleSearch" /\ geo.path = "city" /\ geo.coordLookup = Null) =>
          /\ geo.phase = "error"
          /\ geo.error = "Cidade não encontrada. Tente novamente."
          /\ geo.coordinates = [kind |-> "none"]
          /\ ~geo.isSearching

\* a postal code was resolved, the address search failed in transport, and
\* handleSearch went on from the fallback coordinate
C14_Witness ==
    /\ geo.entry = "handleSearch"
    /\ geo.path = "cep"
    /\ geo.viacep = "ok"
    /\ geo.nominatim = "networkError"
    /\ geo.phase = "searching"
    /\ geo.coordinates = [lat |-> -235505, lng |-> -466333]

----------------------------------------------------------------------------
(* Properties of calculateDistance (checked under SpecDistance)            *)

\* C24: calculateDistance, in the library and in the page's copy, returns a
\* non-negative number (rounded to one decimal: a whole number of tenths), the
\* same for (A, B) and (B, A), and 0 for (A, A)
C24_SymmetricDistance ==
    distCall.phase = "returned" =>
      /\ distCall.forward.kind = "number" /\ distCall.forward.tenths >= 0
      /\ distCall.pageForward.kind = "number" /\ distCall.pageForward.tenths >= 0
      /\ distCall.backward = distCall.forward
      /\ distCall.pageBackward = distCall.pageForward
      /\ distCall.coord1 = distCall.coord2 =>
            distCall.forward = Number(0) /\ distCall.pageForward = Number(0)

\* the claim holds for every pair of points that are not antipodes
SymmetricUnlessAntipodal ==
    distCall.phase = "returned"
      /\ haversineTerm(distCall.coord1, distCall.coord2) < 16 =>
      /\ distCall.forward.kind = "number" /\ distCall.forward.tenths >= 0
      /\ distCall.pageForward.kind = "number" /\ distCall.pageForward.tenths >= 0
      /\ distCall.backward = distCall.forward
      /\ distCall.pageBackward = distCall.pageForward
      /\ distCall.coord1 = distCall.coord2 =>
            distCall.forward = Number(0) /\ distCall.pageForward = Number(0)

----------------------------------------------------------------------------
(* Properties of getCurrentLocation (checked under SpecLocation)           *)

Waiting == locator.phase = "waiting"
Settled == locator.phase = "settled" /\ locator.promise.kind # "pending"

\* C22: once the permission is neither 'unsupported' nor 'denied' the promise
\* of getCurrentLocation settles: with the position of the success callback,
\* with the message of the error callback's code, or with the timer's message
\* when the timer expires before either callback; a callback clears the timer,
\* which therefore never fires after the request was answered
C22_LocationSettles ==
    /\ Waiting ~> Settled
    /\ [][ Waiting /\ locator' # locator =>
             /\ locator'.phase = "settled"
             /\ \/ /\ locator'.answered = "position"
                   /\ locator'.promise = Fulfilled(locator'.received.position)
                   /\ locator'.timer = "cleared"
                \/ /\ locator'.answered = "error"
                   /\ locator'.promise = RejectedWith(errorMessage(locator'.received.code))
                   /\ locator'.timer = "cleared"
                \/ /\ locator'.answered = "no"
                   /\ locator'.promise = RejectedWith(TimerMessage)
                   /\ locator'.timer = "fired" ]_vars
    /\ [][ locator'.phase = "settled" => locator'.firedAfterAnswer = FALSE ]_vars
    /\ [][ locator.phase = "settled" /\ locator'.calls = locator.calls =>
             locator'.promise = locator.promise ]_vars

\* the timer rejected the promise of the second call, and the position arrived
\* afterwards without changing the outcome
C22_Witness ==
    /\ locator.phase = "settled"
    /\ locator.calls = 2
    /\ locator.permission = "prompt"
    /\ locator.timer = "fired"
    /\ locator.answered = "position"
    /\ locator.promise = RejectedWith(TimerMessage)

----------------------------------------------------------------------------
(* Properties of searchCitiesWithCache (checked under SpecCities)          *)

\* the step is the return of a call
CityReturn == cities'.returned # cities.returned
FailedFetch == CityReturn /\ cities'.returned.via = "fetch" /\ cities'.returned.outcome # "ok"
\* the step is the start of a call with a query of at least 2 characters
LongQueryStart ==
    /\ cities'.started = cities.started + 1
    /\ \/ cities'.pending # cities.pending
       \/ CityReturn /\ cities'.returned.via = "cache"

\* the parts of C28 about filling, cached answers and short queries
CacheFilledByFetch ==
    /\ cities'.cache # cities.cache =>
          /\ CityReturn
          /\ cities'.returned.via = "fetch"
          /\ cities'.returned.outcome = "ok"
          /\ cities'.cache.kind = "list"
    /\ cities.cache.kind = "list" /\ LongQueryStart =>
          /\ cities'.requests = cities.requests
          /\ cities'.pending = cities.pending
          /\ CityReturn
          /\ cities'.returned.result =
                filterCities(cities.cache.list, cities'.returned.query)
    /\ cities.cache.kind = "null" /\ LongQueryStart =>
          /\ cities'.requests = cities.requests + 1
          /\ ~CityReturn
    /\ CityReturn /\ cities'.returned.via = "short" =>
          /\ Len(cities'.returned.query) < 2
          /\ cities'.returned.result = <<>>
          /\ cities'.requests = cities.requests
          /\ cities'.cache = cities.cache
    /\ cities'.started = cities.started + 1 /\ CityReturn
         /\ Len(cities'.returned.query) < 2 => cities'.returned.via = "short"

\* C28 as stated: the cache is filled only by a successful fetch and never
\* cleared, a call started with the cache filled and a query of at least 2
\* characters answers from the cache without a request, a query shorter than 2
\* characters returns [] without a request and without touching the cache,
\* and a failed fetch leaves the cache empty
C28_AsStated ==
    [][ /\ CacheFilledByFetch
        /\ FailedFetch => cities'.cache = NoCache ]_vars

\* C28 (amended): as above, but a failed fetch returns [] and leaves the cache
\* as it was: empty, so that the next call fetches again, unless a call that
\* overlapped with the failing one has filled it in the meantime
C28_CacheOnlyFilled ==
    [][ /\ CacheFilledByFetch
        /\ FailedFetch =>
              /\ cities'.cache = cities.cache
              /\ cities'.returned.result = <<>> ]_vars

\* a fetch failed while the cache was empty, no other call being in flight, so
\* that the next call will fetch again
C28_Witness ==
    /\ cities.returned.id = 2
    /\ cities.returned.via = "fetch"
    /\ cities.returned.outcome = "notOk"
    /\ cities.cache = NoCache
    /\ cities.pending = {}
    /\ cities.requests = 1

----------------------------------------------------------------------------
(* Properties of generateRealisticProducts (checked under SpecProducts)    *)

\* the entries of the table the place's products are taken from
TableOf(type) ==
    IF type \in {"Mercado", "Farmácia", "Lanchonete", "Cafeteria", "Padaria"}
    THEN { productsByCategory[k].table[i] :
              k \in { c \in 1..5 : productsByCategory[c].category = type }, i \in 1..10 }
    ELSE { productsByCategory[1].table[i] : i \in 1..10 }

\* C19: generateRealisticProducts returns 3 to 5 products, each a different
\* entry of the table of the place's category (the Mercado table when the
\* category has none), priced at the entry's basePrice times a factor in
\* [0.85, 1.25], rounded to the centavo
C19_MockProducts ==
    genProducts # <<>> =>
      /\ Len(genProducts) \in 3..5
      /\ \A i \in DOMAIN genProducts :
            /\ \E e \in TableOf(genPlace.type) :
                  /\ e.name = genProducts[i].name
                  /\ 200 * genProducts[i].price >= 170 * e.basePrice - 100
                  /\ 200 * genProducts[i].price <= 250 * e.basePrice + 100
            /\ \A j \in DOMAIN genProducts : j # i => genProducts[j].name # genProducts[i].name

\* a place of a category without a table got 5 products of the Mercado table
C19_Witness ==
    /\ genPlace.type = "Outros"
    /\ Len(genProducts) = 5
    /\ \E i \in 1..5 : genProducts[i].name = "Arroz Tipo 1 5kg"

----------------------------------------------------------------------------
(* Properties of the price functions (checked under SpecPrices)            *)

Attaching == priceCall.op = "addRealProductsToPlaces"

\* the lookups started so far: those in flight and those that have settled
Started == priceCall.inFlight \cup DOMAIN priceCall.lookups

\* C16: addRealProductsToPlaces has at most 5 lookups in flight, and a lookup
\* of a later batch of five is started only when every lookup of the earlier
\* batches has settled
C16_BatchesOfFive ==
    Attaching =>
      /\ Cardinality(priceCall.inFlight) <= 5
      /\ \A later \in Started, earlier \in DOMAIN priceCall.places :
            (earlier - 1) \div 5 < (later - 1) \div 5
               => earlier \in DOMAIN priceCall.lookups /\ earlier \notin priceCall.inFlight

\* the sixth lookup is in flight, the five of the first batch have settled
C16_Witness ==
    /\ Attaching
    /\ priceCall.inFlight = {6}
    /\ DOMAIN priceCall.lookups = 1..5

\* the products of store st are mock products made for place p
MockProductsOf(st, p) ==
    /\ Len(st.products) \in 3..5
    /\ \A k \in DOMAIN st.products :
          /\ st.products[k].isReal = FALSE
          /\ st.products[k].store = p.name
          /\ st.products[k].category = p.type
          /\ st.products[k].id = <<p.id, k - 1>>

\* the products of store st are the priced items found, one for one
RealProductsOf(st, p, found) ==
    /\ Len(st.products) = Len(found.prices)
    /\ \A k \in DOMAIN st.products :
          /\ st.products[k].isReal = TRUE
          /\ st.products[k].name = found.prices[k].productName
          /\ st.products[k].price = found.prices[k].price
          /\ st.products[k].store = p.name
          /\ st.products[k].id = <<p.id, k - 1>>

\* C17: a call of addRealProductsToPlaces that has begun returns once no
\* lookup is left in flight (it never rejects), with one store per place in
\* the order of the places; the store of a place whose lookup failed, gave
\* null or gave no priced item has mock products, and the store of any other
\* place has the items its own lookup found, in whatever order the lookups
\* settled
C17_OneStorePerPlace ==
    Attaching =>
      /\ priceCall.phase \in {"running", "returned"}
      /\ priceCall.phase = "returned" <=> priceCall.inFlight = {}
      /\ priceCall.phase = "returned" =>
            /\ Len(priceCall.storesWithProducts) = Len(priceCall.places)
            /\ \A j \in DOMAIN priceCall.places :
                  LET st == priceCall.storesWithProducts[j]
                      p == priceCall.places[j]
                      found == priceCall.lookups[j]
                  IN /\ st.id = p.id /\ st.name = p.name /\ st.type = p.type
                     /\ IF found.kind # "data" THEN MockProductsOf(st, p)
                        ELSE IF Len(found.prices) = 0 THEN MockProductsOf(st, p)
                        ELSE RealProductsOf(st, p, found)

\* six places: the lookup of the first failed, that of the second found two
\* priced items, and the call returned
C17_Witness ==
    /\ Attaching
    /\ priceCall.phase = "returned"
    /\ Len(priceCall.places) = 6
    /\ priceCall.lookups[1].kind = "null"
    /\ priceCall.storesWithProducts[1].products[1].isReal = FALSE
    /\ priceCall.lookups[2].kind = "data"
    /\ Len(priceCall.storesWithProducts[2].products) = 2
    /\ priceCall.storesWithProducts[2].products[1].isReal = TRUE

Confident(c) == c = "high" \/ c = "medium"

\* C18: no price returned by fetchRealPricesWithAI or by
\* searchSpecificProductPrices, and no product with isReal = true of a store
\* of addRealProductsToPlaces, has a confidence other than high or medium
C18_NoLowConfidence ==
    /\ Attaching =>
          /\ \A j \in DOMAIN priceCall.lookups :
                priceCall.lookups[j].kind = "data" =>
                   \A k \in DOMAIN priceCall.lookups[j].prices :
                      Confident(priceCall.lookups[j].prices[k].confidence)
          /\ \A j \in DOMAIN priceCall.storesWithProducts :
                \A k \in DOMAIN priceCall.storesWithProducts[j].products :
                   priceCall.storesWithProducts[j].products[k].isReal =>
                      Confident(priceCall.storesWithProducts[j].products[k].confidence)
    /\ priceCall.op = "searchSpecificProductPrices" =>
          \A k \in DOMAIN priceCall.prices : Confident(priceCall.prices[k].confidence)

\* of the answer A (high), B (low), C (medium) the store got A and C
C18_Witness ==
    /\ Attaching
    /\ priceCall.phase = "returned"
    /\ \E j \in DOMAIN priceCall.storesWithProducts :
          LET ps == priceCall.storesWithProducts[j].products
          IN /\ Len(ps) = 2
             /\ ps[1].isReal /\ ps[1].name = "A" /\ ps[1].confidence = "high"
             /\ ps[2].isReal /\ ps[2].name = "C" /\ ps[2].confidence = "medium"

\* C20: every product of a store returned by addRealProductsToPlaces or by
\* addMockProductsToPlaces has a price of at least zero
C20_NonNegativePrices ==
    (priceCall.op \in {"addRealProductsToPlaces", "addMockProductsToPlaces"}
       /\ priceCall.phase = "returned")
    => \A j \in DOMAIN priceCall.storesWithProducts :
          \A k \in DOMAIN priceCall.storesWithProducts[j].products :
             priceCall.storesWithProducts[j].products[k].price >= 0

\* the same for the mock products alone
MockPricesNonNegative ==
    priceCall.phase = "returned" /\ priceCall.op # "none"
       /\ priceCall.op # "searchSpecificProductPrices"
    => \A j \in DOMAIN priceCall.storesWithProducts :
          \A k \in DOMAIN priceCall.storesWithProducts[j].products :
             ~priceCall.storesWithProducts[j].products[k].isReal
                => priceCall.storesWithProducts[j].products[k].price > 0

----------------------------------------------------------------------------
(* The page's search runs                                                  *)

RunEnds(r) == r \in RunIds(page) /\ r \notin RunIds(page')
RunStarts == page'.started > page.started

\* C21: every run of handleSearch or handleUseCurrentLocation that started
\* ends, whatever the collaborators it awaits answer; the step that ends it
\* leaves isSearching false and either an error message or the run's own
\* non-empty result list on the page; isSearching is true only while a run is
\* in flight, so it never stays true once the runs have ended
C21_SearchEnds ==
    /\ \A r \in 1..MaxSearches : InFlight(r) ~> ~InFlight(r)
    /\ [](page.isSearching => page.runs # {})
    /\ [][\A r \in 1..MaxSearches :
             RunEnds(r) =>
               /\ ~page'.isSearching
               /\ \/ page'.error # ""
                  \/ /\ page'.searchResults.run = r
                     /\ ~page'.searchResults.empty]_vars
C21_Witness ==
    /\ page.started > 0
    /\ page.runs = {}
    /\ ~page.isSearching
    /\ page.error \in {LocationErrorText, "Erro ao buscar estabelecimentos. Tente novamente."}

\* C29: no run of handleSearch or handleUseCurrentLocation starts while
\* isSearching is true, at most one run is in flight, and the result list on
\* the page is set by the run that started last
C29_OnePipeline ==
    /\ [][RunStarts => ~page.isSearching]_vars
    /\ [](Cardinality(page.runs) <= 1)
    /\ [][page'.searchResults # page.searchResults
             => page'.searchResults.run = page'.started]_vars

====
